---- MODULE Spec2Model ----
(***************************************************************************)
(* Model of src/main.cpp: the live-subtitle production loop (capture,      *)
(* voice gate, recognition, stability filter, translation memo, publish),  *)
(* the shared subtitle_state record with its mutex / condition variable,   *)
(* and the /events subscribers that follow the published version.          *)
(*                                                                         *)
(* Text is a sequence of characters, each a string that names one byte:    *)
(* itself for a printable ASCII character, "NUL" "SOH" "BS" "FF" for those *)
(* control characters, "xC3" and the like for a byte above 0x7F.  Energies *)
(* and the noise floor are integers in units of 1e-8; the VAD threshold is *)
(* in tenths.  An audio buffer is the sequence of its samples, a sample   *)
(* being the number of the cycle that obtained it.                         *)
(***************************************************************************)
EXTENDS Integers, Sequences, FiniteSets, TLC

\* ------------------------------------------------------------------------
\* Bounds of the model
\* ------------------------------------------------------------------------

\* number of audio chunks the capture device delivers before it stays silent
MaxCycles == 2

\* number of chunks in the runs that exercise the voice gate
MaxGateCycles == 8

\* length of the string values encoded and decoded again
MaxValueLen == 3

\* number of chunks in the runs that start the gate from every kind of chunk
MaxWarmupCycles == 3

\* number of chunks in the runs that assemble windows
MaxWindowCycles == 4

\* number of chunks in the runs that record what was heard
MaxTraceCycles == 3

\* number of chunks in the runs that recognize repetitive texts
MaxFilterCycles == 2

\* the /events connections
Subs == {1, 2}

\* ------------------------------------------------------------------------
\* Characters and text helpers
\* ------------------------------------------------------------------------

\* the characters chars[1], chars[2], ... with the codes first, first + 1, ...
CodesFrom(first, chars) ==
    [c \in {chars[i] : i \in DOMAIN chars} |->
        first - 1 + CHOOSE i \in DOMAIN chars : chars[i] = c]

\* the value of each character of the model as an unsigned char
CharCode ==
    ("NUL" :> 0) @@ ("SOH" :> 1) @@ ("BS" :> 8) @@ ("\t" :> 9) @@ ("\n" :> 10)
    @@ ("FF" :> 12) @@ ("\r" :> 13) @@ (" " :> 32) @@ ("!" :> 33) @@ ("\"" :> 34)
    @@ ("," :> 44) @@ ("/" :> 47)
    @@ CodesFrom(48, <<"0", "1", "2", "3", "4", "5", "6", "7", "8", "9">>)
    @@ (":" :> 58) @@ ("?" :> 63)
    @@ CodesFrom(65, <<"A", "B", "C", "D", "E", "F", "G", "H", "I", "J", "K", "L",
                       "M", "N", "O", "P", "Q", "R", "S", "T", "U", "V", "W", "X",
                       "Y", "Z">>)
    @@ ("[" :> 91) @@ ("\\" :> 92) @@ ("]" :> 93) @@ ("_" :> 95)
    @@ CodesFrom(97, <<"a", "b", "c", "d", "e", "f", "g", "h", "i", "j", "k", "l",
                       "m", "n", "o", "p", "q", "r", "s", "t", "u", "v", "w", "x",
                       "y", "z">>)
    @@ ("{" :> 123) @@ ("}" :> 125)
    @@ ("x80" :> 128) @@ ("x82" :> 130) @@ ("x98" :> 152) @@ ("x9F" :> 159)
    @@ ("xA9" :> 169) @@ ("xAC" :> 172) @@ ("xC3" :> 195) @@ ("xE2" :> 226)
    @@ ("xF0" :> 240)

\* static_cast<unsigned char>(c)
Ord(c) == CharCode[c]

\* the character with a given code
Chr(b) == CHOOSE c \in DOMAIN CharCode : CharCode[c] = b

\* std::isspace in the "C" locale
IsSpace(c) == Ord(c) = 32 \/ Ord(c) \in 9..13

\* std::ispunct in the "C" locale
IsPunct(c) == Ord(c) \in (33..47) \cup (58..64) \cup (91..96) \cup (123..126)

\* variant: the comparison keeps the case of the letters
ToLower_KeepCase(c) == c

\* std::tolower in the "C" locale
ToLower(c) == IF Ord(c) \in 65..90 THEN Chr(Ord(c) + 32) ELSE c

Last(s) == s[Len(s)]

RECURSIVE DropLeadingSpace(_)
DropLeadingSpace(s) ==
    IF s # <<>> /\ IsSpace(Head(s)) THEN DropLeadingSpace(Tail(s)) ELSE s

RECURSIVE DropTrailingSpace(_)
DropTrailingSpace(s) ==
    IF s # <<>> /\ IsSpace(Last(s))
    THEN DropTrailingSpace(SubSeq(s, 1, Len(s) - 1))
    ELSE s

\* trim(): strips leading and trailing whitespace
trim(s) == DropTrailingSpace(DropLeadingSpace(s))

\* normalize_for_dedup(): drop whitespace and punctuation, lowercase ASCII
RECURSIVE normalize_for_dedup(_)
normalize_for_dedup(text) ==
    IF text = <<>> THEN <<>>
    ELSE LET c == Head(text)
             rest == normalize_for_dedup(Tail(text))
         IN IF IsSpace(c) \/ IsPunct(c) THEN rest ELSE <<ToLower(c)>> \o rest

RECURSIVE DropLeadingPunct(_)
DropLeadingPunct(s) ==
    IF s # <<>> /\ IsPunct(Head(s)) THEN DropLeadingPunct(Tail(s)) ELSE s

RECURSIVE DropTrailingPunct(_)
DropTrailingPunct(s) ==
    IF s # <<>> /\ IsPunct(Last(s))
    THEN DropTrailingPunct(SubSeq(s, 1, Len(s) - 1))
    ELSE s

\* normalize_repeat_token(): strip punctuation at both ends, lowercase ASCII
normalize_repeat_token(token) ==
    LET core == DropTrailingPunct(DropLeadingPunct(token))
    IN [i \in 1..Len(core) |-> ToLower(core[i])]

\* the loop of split_repetition_tokens(): out is the token list so far,
\* current the token being read
RECURSIVE SplitLoop(_, _, _)
SplitLoop(text, current, out) ==
    LET flushed == IF current = <<>> THEN out
                   ELSE LET token == normalize_repeat_token(current)
                        IN IF token = <<>> THEN out ELSE Append(out, token)
    IN IF text = <<>> THEN flushed
       ELSE IF IsSpace(Head(text))
            THEN SplitLoop(Tail(text), <<>>, flushed)
            ELSE SplitLoop(Tail(text), Append(current, Head(text)), out)

split_repetition_tokens(text) == SplitLoop(text, <<>>, <<>>)

MaxTokenCount(tokens) ==
    LET counts == {Cardinality({j \in 1..Len(tokens) : tokens[j] = tokens[i]}) :
                      i \in 1..Len(tokens)}
    IN CHOOSE m \in counts : \A n \in counts : n <= m

\* length of the run of equal tokens that ends at position i
RECURSIVE RunEndingAt(_, _)
RunEndingAt(tokens, i) ==
    IF i > 1 /\ tokens[i] = tokens[i - 1] THEN RunEndingAt(tokens, i - 1) + 1 ELSE 1

MaxRun(tokens) ==
    LET runs == {RunEndingAt(tokens, i) : i \in 1..Len(tokens)}
    IN CHOOSE m \in runs : \A n \in runs : n <= m

IsPrefix(p, s) == Len(p) <= Len(s) /\ SubSeq(s, 1, Len(p)) = p

\* should_drop_repetitive_text(): the reason, or "" when the text is kept
DropReason(text, prev_text) ==
    LET tokens == split_repetition_tokens(text)
    IN IF tokens = <<>> THEN ""
       ELSE IF Len(tokens) >= 8 /\ 4 * MaxTokenCount(tokens) >= 3 * Len(tokens)
            THEN "dominant-token-ratio"
       ELSE IF MaxRun(tokens) >= 5
            THEN "consecutive-token-repeat"
       ELSE IF /\ prev_text # <<>>
               /\ Len(text) > Len(prev_text)
               /\ IsPrefix(prev_text, text)
               /\ LET suffix == trim(SubSeq(text, Len(prev_text) + 1, Len(text)))
                      suffix_tokens == split_repetition_tokens(suffix)
                  IN /\ Len(suffix_tokens) >= 4
                     /\ Cardinality({suffix_tokens[i] : i \in 1..Len(suffix_tokens)}) = 1
            THEN "suffix-single-token-repeat"
       ELSE ""

should_drop_repetitive_text(text, prev_text) == DropReason(text, prev_text) # ""

\* ------------------------------------------------------------------------
\* JSON codec
\* ------------------------------------------------------------------------

\* the digits snprintf("%x") prints
HexDigits == <<"0", "1", "2", "3", "4", "5", "6", "7", "8", "9",
               "a", "b", "c", "d", "e", "f">>

\* snprintf(buf, sizeof(buf), "\\u%04x", c)
UnicodeEscape(code) ==
    <<"\\", "u", HexDigits[((code \div 4096) % 16) + 1],
      HexDigits[((code \div 256) % 16) + 1], HexDigits[((code \div 16) % 16) + 1],
      HexDigits[(code % 16) + 1]>>

\* variant: a backslash is copied as it is
EscapeChar_BackslashVerbatim(c) ==
    IF c = "\"" THEN <<"\\", "\"">>
    ELSE IF c = "\n" THEN <<"\\", "n">>
    ELSE IF c = "\r" THEN <<"\\", "r">>
    ELSE IF c = "\t" THEN <<"\\", "t">>
    ELSE IF Ord(c) < 32 THEN UnicodeEscape(Ord(c))
    ELSE <<c>>

\* what escape_json() appends for one character
EscapeChar(c) ==
    IF c = "\"" THEN <<"\\", "\"">>
    ELSE IF c = "\\" THEN <<"\\", "\\">>
    ELSE IF c = "\n" THEN <<"\\", "n">>
    ELSE IF c = "\r" THEN <<"\\", "r">>
    ELSE IF c = "\t" THEN <<"\\", "t">>
    ELSE IF Ord(c) < 32 THEN UnicodeEscape(Ord(c))
    ELSE <<c>>

RECURSIVE escape_json(_)
escape_json(s) ==
    IF s = <<>> THEN <<>> ELSE EscapeChar(Head(s)) \o escape_json(Tail(s))

\* "key":"escaped_value"
json_str(key, value) ==
    <<"\"">> \o key \o <<"\"", ":", "\"">> \o escape_json(value) \o <<"\"">>

\* Positions are 1-based: pos is the index of the next character to read, so
\* the code's pos < s.size() reads pos <= Len(s).
RECURSIVE json_skip_ws(_, _)
json_skip_ws(s, pos) ==
    IF pos <= Len(s) /\ IsSpace(s[pos]) THEN json_skip_ws(s, pos + 1) ELSE pos

hex_to_int(c) ==
    IF Ord(c) \in 48..57 THEN Ord(c) - 48
    ELSE IF Ord(c) \in 97..102 THEN Ord(c) - 97 + 10
    ELSE IF Ord(c) \in 65..70 THEN Ord(c) - 65 + 10
    ELSE -1

\* the UTF-8 bytes append_utf8() pushes for a code point
append_utf8(cp) ==
    IF cp <= 127 THEN <<Chr(cp)>>
    ELSE IF cp <= 2047
    THEN <<Chr(192 + ((cp \div 64) % 32)), Chr(128 + (cp % 64))>>
    ELSE IF cp <= 65535
    THEN <<Chr(224 + ((cp \div 4096) % 16)), Chr(128 + ((cp \div 64) % 64)),
           Chr(128 + (cp % 64))>>
    ELSE <<Chr(240 + ((cp \div 262144) % 8)), Chr(128 + ((cp \div 4096) % 64)),
           Chr(128 + ((cp \div 64) % 64)), Chr(128 + (cp % 64))>>

\* val = (val << 4) | x over the four digits x0..x3 read at pos, false when
\* one of them is not a hex digit
Hex4Value(pos, x0, x1, x2, x3) ==
    IF x0 < 0 \/ x1 < 0 \/ x2 < 0 \/ x3 < 0
    THEN [ok |-> FALSE, pos |-> pos, val |-> 0]
    ELSE [ok |-> TRUE, pos |-> pos + 4,
          val |-> ((x0 * 16 + x1) * 16 + x2) * 16 + x3]

\* [ok, pos, val]: four hex digits at pos
parse_hex4(s, pos) ==
    IF pos + 3 > Len(s) THEN [ok |-> FALSE, pos |-> pos, val |-> 0]
    ELSE Hex4Value(pos, hex_to_int(s[pos]), hex_to_int(s[pos + 1]),
                   hex_to_int(s[pos + 2]), hex_to_int(s[pos + 3]))

\* the character a one-letter escape stands for, "" for none
SimpleEscape(esc) ==
    IF esc = "\"" THEN "\""
    ELSE IF esc = "\\" THEN "\\"
    ELSE IF esc = "/" THEN "/"
    ELSE IF esc = "b" THEN "BS"
    ELSE IF esc = "f" THEN "FF"
    ELSE IF esc = "n" THEN "\n"
    ELSE IF esc = "r" THEN "\r"
    ELSE IF esc = "t" THEN "\t"
    ELSE ""

RECURSIVE StringTokenLoop(_, _, _)

\* a high surrogate cu1 has been read and "\u" follows; h2 is parse_hex4()
\* of what comes next
LowSurrogate(s, out, cu1, h2) ==
    IF ~h2.ok \/ h2.val < 56320 \/ h2.val > 57343 THEN [ok |-> FALSE, pos |-> h2.pos, out |-> out]
    ELSE StringTokenLoop(s, h2.pos,
            out \o append_utf8(65536 + (cu1 - 55296) * 1024 + (h2.val - 56320)))

\* case 'u': h1 is parse_hex4() of what follows the "\u"
UnicodeToken(s, out, h1) ==
    IF ~h1.ok THEN [ok |-> FALSE, pos |-> h1.pos, out |-> out]
    ELSE IF h1.val \in 55296..56319
    THEN IF h1.pos + 1 > Len(s) \/ s[h1.pos] # "\\" \/ s[h1.pos + 1] # "u"
         THEN [ok |-> FALSE, pos |-> h1.pos, out |-> out]
         ELSE LowSurrogate(s, out, h1.val, parse_hex4(s, h1.pos + 2))
    ELSE IF h1.val \in 56320..57343 THEN [ok |-> FALSE, pos |-> h1.pos, out |-> out]
    ELSE StringTokenLoop(s, h1.pos, out \o append_utf8(h1.val))

\* switch (esc): pos is the position after the escape letter
EscapeToken(s, pos, out, esc) ==
    IF SimpleEscape(esc) # ""
    THEN StringTokenLoop(s, pos, Append(out, SimpleEscape(esc)))
    ELSE IF esc = "u" THEN UnicodeToken(s, out, parse_hex4(s, pos))
    ELSE [ok |-> FALSE, pos |-> pos, out |-> out]

\* the while loop of parse_json_string_token(): [ok, pos, out]
StringTokenLoop(s, pos, out) ==
    IF pos > Len(s) THEN [ok |-> FALSE, pos |-> pos, out |-> out]
    ELSE IF s[pos] = "\"" THEN [ok |-> TRUE, pos |-> pos + 1, out |-> out]
    ELSE IF Ord(s[pos]) < 32 THEN [ok |-> FALSE, pos |-> pos + 1, out |-> out]
    ELSE IF s[pos] # "\\" THEN StringTokenLoop(s, pos + 1, Append(out, s[pos]))
    ELSE IF pos + 1 > Len(s) THEN [ok |-> FALSE, pos |-> pos + 1, out |-> out]
    ELSE EscapeToken(s, pos + 2, out, s[pos + 1])

\* [ok, pos, out]: out is the caller's string, untouched when there is no
\* opening quote and cleared as soon as there is one
parse_json_string_token(s, pos, out) ==
    IF pos > Len(s) \/ s[pos] # "\""
    THEN [ok |-> FALSE, pos |-> pos, out |-> out]
    ELSE StringTokenLoop(s, pos + 1, <<>>)

\* the end of a run of characters up to ',', '}', ']' or white space
RECURSIVE PrimitiveEnd(_, _)
PrimitiveEnd(s, pos) ==
    IF pos <= Len(s) /\ s[pos] \notin {",", "}", "]"} /\ ~IsSpace(s[pos])
    THEN PrimitiveEnd(s, pos + 1)
    ELSE pos

\* [ok, pos]: return pos > start
json_skip_primitive(s, pos) ==
    [ok |-> PrimitiveEnd(s, pos) > pos, pos |-> PrimitiveEnd(s, pos)]

\* what is kept of a string token that is skipped
SkippedToken(t) == [ok |-> t.ok, pos |-> t.pos]

RECURSIVE json_skip_value(_, _)
RECURSIVE ObjectLoop(_, _)
RECURSIVE ArrayLoop(_, _)

\* json_skip_object() after a member's value: v is what json_skip_value()
\* returned
ObjectNext(s, v) ==
    LET p2 == json_skip_ws(s, v.pos)
    IN IF ~v.ok THEN [ok |-> FALSE, pos |-> v.pos]
       ELSE IF p2 > Len(s) THEN [ok |-> FALSE, pos |-> p2]
       ELSE IF s[p2] = "," THEN ObjectLoop(s, json_skip_ws(s, p2 + 1))
       ELSE IF s[p2] = "}" THEN [ok |-> TRUE, pos |-> p2 + 1]
       ELSE [ok |-> FALSE, pos |-> p2]

\* json_skip_object() after a member's key: k is what
\* parse_json_string_token() returned
ObjectMember(s, k) ==
    LET p1 == json_skip_ws(s, k.pos)
    IN IF ~k.ok THEN [ok |-> FALSE, pos |-> k.pos]
       ELSE IF p1 > Len(s) \/ s[p1] # ":" THEN [ok |-> FALSE, pos |-> p1]
       ELSE ObjectNext(s, json_skip_value(s, p1 + 1))

\* the while loop of json_skip_object()
ObjectLoop(s, pos) ==
    IF pos > Len(s) THEN [ok |-> FALSE, pos |-> pos]
    ELSE ObjectMember(s, parse_json_string_token(s, pos, <<>>))

json_skip_object(s, pos) ==
    IF pos > Len(s) \/ s[pos] # "{" THEN [ok |-> FALSE, pos |-> pos]
    ELSE IF json_skip_ws(s, pos + 1) <= Len(s) /\ s[json_skip_ws(s, pos + 1)] = "}"
    THEN [ok |-> TRUE, pos |-> json_skip_ws(s, pos + 1) + 1]
    ELSE ObjectLoop(s, json_skip_ws(s, pos + 1))

\* json_skip_array() after an element: v is what json_skip_value() returned
ArrayNext(s, v) ==
    LET p2 == json_skip_ws(s, v.pos)
    IN IF ~v.ok THEN [ok |-> FALSE, pos |-> v.pos]
       ELSE IF p2 > Len(s) THEN [ok |-> FALSE, pos |-> p2]
       ELSE IF s[p2] = "," THEN ArrayLoop(s, json_skip_ws(s, p2 + 1))
       ELSE IF s[p2] = "]" THEN [ok |-> TRUE, pos |-> p2 + 1]
       ELSE [ok |-> FALSE, pos |-> p2]

\* the while loop of json_skip_array()
ArrayLoop(s, pos) ==
    IF pos > Len(s) THEN [ok |-> FALSE, pos |-> pos]
    ELSE ArrayNext(s, json_skip_value(s, pos))

json_skip_array(s, pos) ==
    IF pos > Len(s) \/ s[pos] # "[" THEN [ok |-> FALSE, pos |-> pos]
    ELSE IF json_skip_ws(s, pos + 1) <= Len(s) /\ s[json_skip_ws(s, pos + 1)] = "]"
    THEN [ok |-> TRUE, pos |-> json_skip_ws(s, pos + 1) + 1]
    ELSE ArrayLoop(s, json_skip_ws(s, pos + 1))

json_skip_value(s, pos) ==
    LET p == json_skip_ws(s, pos)
    IN IF p > Len(s) THEN [ok |-> FALSE, pos |-> p]
       ELSE IF s[p] = "\"" THEN SkippedToken(parse_json_string_token(s, p, <<>>))
       ELSE IF s[p] = "{" THEN json_skip_object(s, p)
       ELSE IF s[p] = "[" THEN json_skip_array(s, p)
       ELSE json_skip_primitive(s, p)

\* variant: a later occurrence of the key replaces the value found
FoundValue_LastWins(found, found_value, value) == value

\* if (!found) { found = true; found_value = value; }
FoundValue(found, found_value, value) == IF found THEN found_value ELSE value

RECURSIVE GetFieldLoop(_, _, _, _, _)

\* json_get_string_field() after a field's value: r is what the parse or the
\* skip of the value returned
GetFieldNext(s, key, r, found, found_value) ==
    LET p3 == json_skip_ws(s, r.pos)
    IN IF ~r.ok \/ p3 > Len(s)
       THEN [ok |-> FALSE, pos |-> 0, found |-> FALSE, found_value |-> <<>>]
       ELSE IF s[p3] = ","
       THEN GetFieldLoop(s, key, json_skip_ws(s, p3 + 1), found, found_value)
       ELSE IF s[p3] = "}"
       THEN [ok |-> TRUE, pos |-> p3 + 1, found |-> found,
             found_value |-> found_value]
       ELSE [ok |-> FALSE, pos |-> 0, found |-> FALSE, found_value |-> <<>>]

\* name == key: value is what parse_json_string_token() returned
GetFieldOwn(s, key, found, found_value, value) ==
    GetFieldNext(s, key, value, TRUE, FoundValue(found, found_value, value.out))

\* json_get_string_field() after a field's name: name is what
\* parse_json_string_token() returned
GetFieldMember(s, key, found, found_value, name) ==
    LET p1 == json_skip_ws(s, name.pos)
        p2 == json_skip_ws(s, p1 + 1)
    IN IF ~name.ok \/ p1 > Len(s) \/ s[p1] # ":"
       THEN [ok |-> FALSE, pos |-> 0, found |-> FALSE, found_value |-> <<>>]
       ELSE IF name.out = key
       THEN GetFieldOwn(s, key, found, found_value,
                        parse_json_string_token(s, p2, <<>>))
       ELSE GetFieldNext(s, key, json_skip_value(s, p2), found, found_value)

\* the while loop of json_get_string_field(): [ok, pos, found, found_value],
\* ok false for a return false inside the loop
GetFieldLoop(s, key, pos, found, found_value) ==
    IF pos > Len(s)
    THEN [ok |-> TRUE, pos |-> pos, found |-> found, found_value |-> found_value]
    ELSE GetFieldMember(s, key, found, found_value,
                        parse_json_string_token(s, pos, <<>>))

\* json_get_string_field() after its loop, r being what the loop left
GetFieldEnd(s, out, r) ==
    IF ~r.ok THEN [ok |-> FALSE, out |-> out]
    ELSE IF ~r.found THEN [ok |-> FALSE, out |-> out]
    ELSE IF json_skip_ws(s, r.pos) # Len(s) + 1 THEN [ok |-> FALSE, out |-> out]
    ELSE [ok |-> TRUE, out |-> r.found_value]

\* [ok, out]: out is the caller's string, assigned only on success
json_get_string_field(s, key, out) ==
    LET p0 == json_skip_ws(s, 1)
        p1 == json_skip_ws(s, p0 + 1)
    IN IF p0 > Len(s) \/ s[p0] # "{" THEN [ok |-> FALSE, out |-> out]
       ELSE IF p1 <= Len(s) /\ s[p1] = "}" THEN [ok |-> FALSE, out |-> out]
       ELSE GetFieldEnd(s, out, GetFieldLoop(s, key, p1, FALSE, <<>>))

K_target_lang == <<"t", "a", "r", "g", "e", "t", "_", "l", "a", "n", "g">>

K_source_lang == <<"s", "o", "u", "r", "c", "e", "_", "l", "a", "n", "g">>

\* a default-constructed config_update_payload
EmptyPayload == [has_target_lang |-> FALSE, has_source_lang |-> FALSE,
                 target_lang |-> <<>>, source_lang |-> <<>>]

RECURSIVE PayloadLoop(_, _, _)

\* parse_config_update_payload() after a field's value: r is what the parse
\* or the skip of the value returned, out the record by now
PayloadNext(s, r, out) ==
    LET p3 == json_skip_ws(s, r.pos)
    IN IF ~r.ok \/ p3 > Len(s) THEN [ok |-> FALSE, pos |-> p3, out |-> out]
       ELSE IF s[p3] = "," THEN PayloadLoop(s, json_skip_ws(s, p3 + 1), out)
       ELSE IF s[p3] = "}" THEN [ok |-> TRUE, pos |-> p3 + 1, out |-> out]
       ELSE [ok |-> FALSE, pos |-> p3, out |-> out]

\* name == "target_lang": t is what parse_json_string_token() returned for
\* out.target_lang, which it has written whether it succeeded or not
PayloadTarget(s, out, t) ==
    PayloadNext(s, t,
                [out EXCEPT !.target_lang = t.out, !.has_target_lang = @ \/ t.ok])

\* name == "source_lang", likewise
PayloadSource(s, out, t) ==
    PayloadNext(s, t,
                [out EXCEPT !.source_lang = t.out, !.has_source_lang = @ \/ t.ok])

\* parse_config_update_payload() after a field's name: name is what
\* parse_json_string_token() returned
PayloadMember(s, pos, out, name) ==
    LET p1 == json_skip_ws(s, name.pos)
        p2 == json_skip_ws(s, p1 + 1)
    IN IF ~name.ok THEN [ok |-> FALSE, pos |-> pos, out |-> out]
       ELSE IF p1 > Len(s) \/ s[p1] # ":" THEN [ok |-> FALSE, pos |-> p1, out |-> out]
       ELSE IF name.out = K_target_lang
       THEN PayloadTarget(s, out, parse_json_string_token(s, p2, out.target_lang))
       ELSE IF name.out = K_source_lang
       THEN PayloadSource(s, out, parse_json_string_token(s, p2, out.source_lang))
       ELSE PayloadNext(s, json_skip_value(s, p2), out)

\* the while loop of parse_config_update_payload(): [ok, pos, out], ok false
\* for a return false inside the loop; the string tokens are parsed into the
\* fields of out themselves
PayloadLoop(s, pos, out) ==
    IF pos > Len(s) THEN [ok |-> TRUE, pos |-> pos, out |-> out]
    ELSE PayloadMember(s, pos, out, parse_json_string_token(s, pos, <<>>))

\* parse_config_update_payload() after its loop, r being what the loop left
PayloadEnd(s, r) ==
    IF ~r.ok THEN [ok |-> FALSE, out |-> r.out]
    ELSE IF json_skip_ws(s, r.pos) # Len(s) + 1 THEN [ok |-> FALSE, out |-> r.out]
    ELSE [ok |-> r.out.has_target_lang \/ r.out.has_source_lang, out |-> r.out]

\* [ok, out]: out is the caller's record as the call leaves it
parse_config_update_payload(s, out) ==
    LET p0 == json_skip_ws(s, 1)
        p1 == json_skip_ws(s, p0 + 1)
    IN IF p0 > Len(s) \/ s[p0] # "{" THEN [ok |-> FALSE, out |-> out]
       ELSE IF p1 <= Len(s) /\ s[p1] = "}" THEN [ok |-> FALSE, out |-> out]
       ELSE PayloadEnd(s, PayloadLoop(s, p1, out))

\* "{" + json_str(key, value) + "}"
ObjectOf(key, value) == <<"{">> \o json_str(key, value) \o <<"}">>

\* the key and a string token, raw being the characters between the quotes
RawField(key, raw) == <<"\"">> \o key \o <<"\"", ":", "\"">> \o raw \o <<"\"">>

\* an object text with one or two fields
RawObject(key, raw) == <<"{">> \o RawField(key, raw) \o <<"}">>

RawObject2(key1, raw1, key2, raw2) ==
    <<"{">> \o RawField(key1, raw1) \o <<",">> \o RawField(key2, raw2) \o <<"}">>

\* ------------------------------------------------------------------------
\* Adaptive voice gate (one cycle)
\* ------------------------------------------------------------------------

MinOf(a, b) == IF a <= b THEN a ELSE b

MaxOf(a, b) == IF a >= b THEN a ELSE b

\* vad_unit = max(0, min(vad_thold, 1)), in tenths
VadUnit(vad_thold) == MaxOf(0, MinOf(vad_thold, 10))

\* base_gate = 0.00008 + 0.00020 * vad_unit
BaseGate(vad_thold) == 8000 + 2000 * VadUnit(vad_thold)

\* gate_out of should_process_audio_chunk()
EnergyGate(vad_thold, floor, ready) ==
    IF ready
    THEN MaxOf(BaseGate(vad_thold), (floor * (160 + 12 * VadUnit(vad_thold))) \div 100)
    ELSE BaseGate(vad_thold)

\* return value of should_process_audio_chunk()
should_process_audio_chunk(energy, vad_thold, floor, ready) ==
    energy >= EnergyGate(vad_thold, floor, ready)

\* variant: the rise towards a louder chunk is not clipped at 1.3 * floor
NoiseFloorUpdate_NoClip(energy, floor, ready) ==
    IF ~ready THEN energy
    ELSE IF energy <= floor THEN (85 * floor + 15 * energy) \div 100
    ELSE (96 * floor + 4 * energy) \div 100

\* the noise floor after the update of one cycle
NoiseFloorUpdate(energy, floor, ready) ==
    IF ~ready THEN energy
    ELSE IF energy <= floor THEN (85 * floor + 15 * energy) \div 100
    ELSE LET clipped_rise == MinOf(energy, (floor * 13) \div 10)
         IN (96 * floor + 4 * clipped_rise) \div 100

\* variant: a chunk of exactly 0.00002 is near-silent too
HardSilence_AtMost(energy) == energy <= 2000

\* chunk_energy < 0.00002
HardSilence(energy) == energy < 2000

\* variant: the warmup lets no chunk through
ObviousVoice_Never(energy, energy_gate) == FALSE

\* obvious_voice = chunk_energy >= energy_gate * 2.2
ObviousVoice(energy, energy_gate) == 10 * energy >= 22 * energy_gate

\* variant: the bypass gate does not grow with --vad-thold
StallBypassGate_IgnoresThold(vad_thold) == 2000

\* variant: the bypass needs the energy of the base gate
StallBypassGate_BaseGate(vad_thold) == 8000 + 2000 * VadUnit(vad_thold)

\* stall_bypass_gate = 0.00002 + 0.00008 * vad_unit
StallBypassGate(vad_thold) == 2000 + 800 * VadUnit(vad_thold)

\* variant: the near-silence check is part of the VAD and goes with --no-vad
GateCycle_SilenceOnlyWithVad(energy, use_vad, vad_thold, g) ==
    LET gate      == EnergyGate(vad_thold, g.noise_floor, g.noise_floor_ready)
        has_voice == should_process_audio_chunk(energy, vad_thold, g.noise_floor,
                                                g.noise_floor_ready)
        floor2    == NoiseFloorUpdate(energy, g.noise_floor, g.noise_floor_ready)
        g1        == [g EXCEPT !.noise_floor = floor2, !.noise_floor_ready = TRUE]
        obvious   == ObviousVoice(energy, gate)
        in_warmup == use_vad /\ g.vad_warmup_chunks > 0
        g2        == IF in_warmup THEN [g1 EXCEPT !.vad_warmup_chunks = 0] ELSE g1
        stall2    == g.vad_stall_chunks + 1
        bypass    == stall2 >= 6 /\ energy >= StallBypassGate(vad_thold)
    IN IF use_vad /\ HardSilence(energy)
       THEN [verdict |-> "hard-silence", gate |-> gate, g |-> g1]
       ELSE IF in_warmup /\ ~obvious
       THEN [verdict |-> "warmup", gate |-> gate,
             g |-> [g1 EXCEPT !.vad_warmup_chunks = g.vad_warmup_chunks - 1]]
       ELSE IF use_vad /\ ~has_voice /\ ~bypass
       THEN [verdict |-> "vad-skip", gate |-> gate,
             g |-> [g2 EXCEPT !.vad_stall_chunks = stall2]]
       ELSE [verdict |-> IF use_vad /\ ~has_voice THEN "stall-bypass" ELSE "voice",
             gate |-> gate,
             g |-> [g2 EXCEPT !.vad_stall_chunks = 0]]

\* The gate part of one production cycle: the verdict for a chunk of the
\* given energy and the gate state the cycle leaves behind.
GateCycle(energy, use_vad, vad_thold, g) ==
    LET gate      == EnergyGate(vad_thold, g.noise_floor, g.noise_floor_ready)
        has_voice == should_process_audio_chunk(energy, vad_thold, g.noise_floor,
                                                g.noise_floor_ready)
        floor2    == NoiseFloorUpdate(energy, g.noise_floor, g.noise_floor_ready)
        g1        == [g EXCEPT !.noise_floor = floor2, !.noise_floor_ready = TRUE]
        obvious   == ObviousVoice(energy, gate)
        in_warmup == use_vad /\ g.vad_warmup_chunks > 0
        g2        == IF in_warmup THEN [g1 EXCEPT !.vad_warmup_chunks = 0] ELSE g1
        stall2    == g.vad_stall_chunks + 1
        bypass    == stall2 >= 6 /\ energy >= StallBypassGate(vad_thold)
    IN IF HardSilence(energy)
       THEN [verdict |-> "hard-silence", gate |-> gate, g |-> g1]
       ELSE IF in_warmup /\ ~obvious
       THEN [verdict |-> "warmup", gate |-> gate,
             g |-> [g1 EXCEPT !.vad_warmup_chunks = g.vad_warmup_chunks - 1]]
       ELSE IF use_vad /\ ~has_voice /\ ~bypass
       THEN [verdict |-> "vad-skip", gate |-> gate,
             g |-> [g2 EXCEPT !.vad_stall_chunks = stall2]]
       ELSE [verdict |-> IF use_vad /\ ~has_voice THEN "stall-bypass" ELSE "voice",
             gate |-> gate,
             g |-> [g2 EXCEPT !.vad_stall_chunks = 0]]

Admitted(verdict) == verdict \in {"voice", "stall-bypass"}

\* ------------------------------------------------------------------------
\* Inputs of the model
\* ------------------------------------------------------------------------

S_ko == <<"k", "o">>

S_en == <<"e", "n">>

\* mean absolute energy of a chunk: silence, below the gate, far above it
Energies == {1000, 10000, 1000000}

\* target_lang values a configuration update can carry
TargetLangs == {<<>>, S_en}

\* what translate_text() returns: "" on failure
TranslatorResults == {<<>>, <<"t">>}

S_auto == <<"a", "u", "t", "o">>

S_xx == <<"x", "x">>

\* the fields a client puts into a configuration update
Payloads == [has_source_lang : BOOLEAN, source_lang : {S_auto, S_xx},
             has_target_lang : BOOLEAN, target_lang : TargetLangs]

\* the body of the POST /api/config that carries those fields
PayloadBody(p) ==
    <<"{">>
    \o (IF p.has_source_lang THEN json_str(K_source_lang, p.source_lang) ELSE <<>>)
    \o (IF p.has_source_lang /\ p.has_target_lang THEN <<",">> ELSE <<>>)
    \o (IF p.has_target_lang THEN json_str(K_target_lang, p.target_lang) ELSE <<>>)
    \o <<"}">>

\* the bodies that only choose a target language
ConfigBodies == {ObjectOf(K_target_lang, t) : t \in TargetLangs}

\* ------------------------------------------------------------------------
\* Window assembly
\* ------------------------------------------------------------------------

\* (int)(1e-3 * ms * WHISPER_SAMPLE_RATE), WHISPER_SAMPLE_RATE being 16000
SamplesOf(ms) == ms * 16

\* the sample counts main() derives from --step, --length and --keep after
\* keep_ms = min(keep_ms, step_ms) and length_ms = max(length_ms, step_ms),
\* with the buffers as they are before the first cycle
InitPcm(step_ms, length_ms, keep_ms) ==
    [n_samples_step |-> SamplesOf(step_ms),
     n_samples_len  |-> SamplesOf(MaxOf(length_ms, step_ms)),
     n_samples_keep |-> SamplesOf(MinOf(keep_ms, step_ms)),
     n_samples_new  |-> 0, n_samples_take |-> 0,
     pcmf32 |-> <<>>, pcmf32_old |-> <<>>]

\* variant: the tail is n_samples_keep long whatever the length of the chunk
TakeCount_KeepOnly(old_size, n_samples_keep, n_samples_len, n_samples_new) ==
    MinOf(old_size, n_samples_keep)

\* n_samples_take = min(pcmf32_old.size(), max(0, keep + len - new))
TakeCount(old_size, n_samples_keep, n_samples_len, n_samples_new) ==
    MinOf(old_size, MaxOf(0, n_samples_keep + n_samples_len - n_samples_new))

\* pcmf32: the last n_samples_take samples of pcmf32_old, then pcmf32_new
Window(pcmf32_old, n_samples_take, pcmf32_new) ==
    SubSeq(pcmf32_old, Len(pcmf32_old) - n_samples_take + 1, Len(pcmf32_old))
        \o pcmf32_new

\* the buffers after the assembly of an admitted chunk, take being its
\* n_samples_take: pcmf32_old = pcmf32
Assembled(p, take, pcmf32_new) ==
    [p EXCEPT !.n_samples_new = Len(pcmf32_new),
              !.n_samples_take = take,
              !.pcmf32 = Window(p.pcmf32_old, take, pcmf32_new),
              !.pcmf32_old = Window(p.pcmf32_old, take, pcmf32_new)]

\* the buffers after a cycle that obtained pcmf32_new: assembled when the
\* gate admitted the chunk, left as they were (but for n_samples_new) when
\* the cycle ended in a continue
PcmCycle(p, admitted, pcmf32_new) ==
    IF admitted
    THEN Assembled(p, TakeCount(Len(p.pcmf32_old), p.n_samples_keep, p.n_samples_len,
                                Len(pcmf32_new)), pcmf32_new)
    ELSE [p EXCEPT !.n_samples_new = Len(pcmf32_new)]

\* ------------------------------------------------------------------------
\* State
\* ------------------------------------------------------------------------

VARIABLES
    par,            \* params: use_vad, vad_thold, translate (translate_url set)
    g_running,      \* the atomic flag the signal handler clears
    state,          \* subtitle_state: the record under state.mtx
    wpc,            \* position of the production thread
    gate,           \* noise_floor, noise_floor_ready, vad_warmup_chunks, vad_stall_chunks
    cyc,            \* locals of the cycle in progress: text, normalized_text, lang, translated
    emitted_ref,    \* prev_emitted_text, prev_emitted_norm, has_emitted_text
    cache,          \* cache_key, cache_result
    cycles,         \* number of chunks obtained so far
    outcome,        \* how the last cycle (or poll) of the production loop ended
    http,           \* the last POST /api/config: its body and the status answered
    js,             \* a text handed to the JSON codec and what the codec returned
    xlat,           \* the last translation attempt: its text and target_lang,
                    \* whether translate_text() was called, what it returned
    pcm,            \* n_samples_step, n_samples_len, n_samples_keep, the window
                    \* pcmf32 and pcmf32_old, and n_samples_new and
                    \* n_samples_take of the last cycle
    trace,          \* the energies of the chunks obtained, where a run records them
    chunk,          \* the last chunk obtained: chunk_energy, energy_gate, the gate's
                    \* verdict, and how many chunks in a row were rejected
    sub,            \* per /events connection: position and locals of the provider
    emitted         \* per /events connection: versions of the data events written

vars == <<par, g_running, state, wpc, gate, cyc, emitted_ref, cache, cycles,
          outcome, chunk, xlat, http, js, pcm, trace, sub, emitted>>

NoCycle == [text |-> <<>>, normalized_text |-> <<>>, lang |-> <<>>, translated |-> <<>>]

NoEvent == <<>>

\* variant: a connection starts with client_version = 1
InitSub_StartAtOne == [pc |-> "idle", client_version |-> 1, next_version |-> 1,
                       running |-> TRUE, event |-> <<>>, notified |-> FALSE,
                       sent |-> "none", attach_version |-> 0]

InitSub == [pc |-> "idle", client_version |-> 0, next_version |-> 0,
            running |-> TRUE, event |-> NoEvent, notified |-> FALSE,
            sent |-> "none", attach_version |-> 0]

InitState == [text |-> <<>>, translated |-> <<>>, language |-> <<>>,
              source_lang |-> S_ko, target_lang |-> <<>>,
              version |-> 0, running |-> TRUE]

\* a codec call that has not been made: done is false
NoResult == [done |-> FALSE, ok |-> FALSE, out |-> <<>>]

\* the codec has been handed nothing
NoJson == [origin |-> "none", value |-> <<>>, text |-> <<>>, prior |-> <<>>,
           get |-> NoResult, cfg |-> [NoResult EXCEPT !.out = EmptyPayload],
           again |-> NoResult]

InitCommon ==
    /\ g_running = TRUE
    /\ state = InitState
    /\ wpc = "poll"
    /\ gate = [noise_floor |-> 0, noise_floor_ready |-> FALSE,
               vad_warmup_chunks |-> 2, vad_stall_chunks |-> 0]
    /\ cyc = NoCycle
    /\ emitted_ref = [prev_emitted_text |-> <<>>, prev_emitted_norm |-> <<>>,
                      has_emitted_text |-> FALSE]
    /\ cache = [cache_key |-> <<>>, cache_result |-> <<>>]
    /\ cycles = 0
    /\ outcome = "none"
    /\ chunk = [chunk_energy |-> 0, energy_gate |-> 0, verdict |-> "none",
                rejected_run |-> 0, rejected_after_warmup |-> 0]
    /\ trace = <<>>
    /\ xlat = [made |-> FALSE, cycle |-> 0, text |-> <<>>, target_lang |-> <<>>,
               called |-> FALSE, result |-> <<>>]
    /\ http = [body |-> <<>>, status |-> 0]
    /\ sub = [s \in Subs |-> InitSub]
    /\ emitted = [s \in Subs |-> <<>>]

\* the state after construction for the parameters of pars, the codec handed
\* one of jss, and the sample counts and buffers of pcms
InitWith(pars, jss, pcms) ==
    /\ par \in pars
    /\ js \in jss
    /\ pcm \in pcms
    /\ InitCommon

\* ------------------------------------------------------------------------
\* Production thread (main loop)
\* ------------------------------------------------------------------------

\* variant: the handler also clears state.running
Signal_FlipsRunning ==
    /\ wpc # "done"
    /\ g_running
    /\ g_running' = FALSE
    /\ state' = [state EXCEPT !.running = FALSE]
    /\ UNCHANGED <<par, pcm, trace, js, http, chunk, xlat, wpc, gate, cyc, emitted_ref, cache, cycles, outcome,
                   sub, emitted>>

\* signal_handler(): SIGINT / SIGTERM at any moment of the run
Signal ==
    /\ wpc # "done"
    /\ g_running
    /\ g_running' = FALSE
    /\ UNCHANGED <<par, pcm, trace, js, http, chunk, xlat, state, wpc, gate, cyc, emitted_ref, cache, cycles, outcome,
                   sub, emitted>>

\* while (g_running) is false at the loop head or in the collect loop
LoopExit ==
    /\ wpc = "poll"
    /\ ~g_running
    /\ wpc' = "shutdown"
    /\ UNCHANGED <<par, pcm, trace, js, http, chunk, xlat, g_running, state, gate, cyc, emitted_ref, cache, cycles,
                   outcome, sub, emitted>>

\* sdl_poll_events() reports SDL_QUIT
SdlQuit ==
    /\ wpc = "poll"
    /\ g_running
    /\ g_running' = FALSE
    /\ wpc' = "shutdown"
    /\ UNCHANGED <<par, pcm, trace, js, http, chunk, xlat, state, gate, cyc, emitted_ref, cache, cycles, outcome,
                   sub, emitted>>

\* more than 2 * n_samples_step samples: dropped, the collect loop goes on
Overrun ==
    /\ wpc = "poll"
    /\ g_running
    /\ cycles < MaxCycles
    /\ outcome' = "overrun"
    /\ UNCHANGED <<par, pcm, trace, js, http, chunk, xlat, g_running, state, wpc, gate, cyc, emitted_ref, cache,
                   cycles, sub, emitted>>

\* the record of the chunk just obtained; the two run lengths count the
\* chunks rejected in a row with an energy the stall bypass is meant to let
\* through (energy >= max(0.00002, 0.00002 + 0.00008 * vad_unit)), all of
\* them and those of cycles that began with the warmup over
ChunkRecord(energy, r, before, old) ==
    LET rejected == /\ ~Admitted(r.verdict)
                    /\ energy >= 2000
                    /\ energy >= 2000 + 800 * MaxOf(0, MinOf(par.vad_thold, 10))
    IN [chunk_energy |-> energy, energy_gate |-> r.gate, verdict |-> r.verdict,
        rejected_run |-> IF rejected THEN old.rejected_run + 1 ELSE 0,
        rejected_after_warmup |->
            IF rejected /\ before.vad_warmup_chunks = 0
            THEN old.rejected_after_warmup + 1 ELSE 0]

\* a chunk of n samples is obtained; the noise floor update and the gate
\* decide about it, and an admitted chunk is assembled into the window
CollectStep(energy, n) ==
    /\ wpc = "poll"
    /\ g_running
    /\    LET r == GateCycle(energy, par.use_vad, par.vad_thold, gate)
          IN /\ gate' = r.g
             /\ chunk' = ChunkRecord(energy, r, gate, chunk)
             /\ pcm' = PcmCycle(pcm, Admitted(r.verdict), [i \in 1..n |-> cycles + 1])
             /\ IF Admitted(r.verdict)
                THEN /\ wpc' = "infer"
                     /\ outcome' = "admitted"
                ELSE /\ wpc' = "poll"
                     /\ outcome' = r.verdict
    /\ cycles' = cycles + 1
    /\ UNCHANGED <<par, js, http, xlat, g_running, state, cyc, emitted_ref, cache, sub, emitted>>

\* the capture device delivers a chunk of n samples, in a run of at most
\* max_cycles cycles: pcmf32_new.size() >= n_samples_step and not
\* > 2 * n_samples_step when the wait is over
Collect(max_cycles, energy, n) ==
    /\ cycles < max_cycles
    /\ n >= pcm.n_samples_step /\ ~(n > 2 * pcm.n_samples_step)
    /\ CollectStep(energy, n)
    /\ UNCHANGED trace

\* variant: a failed recognition blanks the displayed text
RecognizeFail_ClearsText ==
    /\ wpc = "infer"
    /\ wpc' = "poll"
    /\ outcome' = "whisper-failed"
    /\ state' = [state EXCEPT !.text = <<>>]
    /\ UNCHANGED <<par, pcm, trace, js, http, chunk, xlat, g_running, gate, cyc, emitted_ref, cache, cycles,
                   sub, emitted>>

\* whisper_full() fails
RecognizeFail ==
    /\ wpc = "infer"
    /\ wpc' = "poll"
    /\ outcome' = "whisper-failed"
    /\ UNCHANGED <<par, pcm, trace, js, http, chunk, xlat, g_running, state, gate, cyc, emitted_ref, cache, cycles,
                   sub, emitted>>

\* why the stability filter rejects the trimmed text, "" when it passes
FilterReason(text, ref) ==
    LET normalized_text == normalize_for_dedup(text)
    IN IF text = <<>> THEN "empty-text"
       ELSE IF /\ ref.has_emitted_text
               /\ normalized_text # <<>>
               /\ normalized_text = ref.prev_emitted_norm
            THEN "duplicate-text"
       ELSE DropReason(text, ref.prev_emitted_text)

\* whisper_full() succeeds: collect the text, filter it, read the language
RecognizeStep(raw, lang) ==
    /\ wpc = "infer"
    /\    LET text == trim(raw)
              reason == FilterReason(text, emitted_ref)
          IN IF reason # ""
             THEN /\ wpc' = "poll"
                  /\ outcome' = reason
                  /\ cyc' = NoCycle
             ELSE /\ wpc' = IF par.translate THEN "translate" ELSE "publish"
                  /\ outcome' = "accepted"
                  /\ cyc' = [text |-> text,
                             normalized_text |-> normalize_for_dedup(text),
                             lang |-> lang, translated |-> <<>>]
    /\ UNCHANGED <<par, pcm, js, http, chunk, xlat, g_running, state, gate, emitted_ref, cache, cycles,
                   sub, emitted>>

\* the recognizer returns raw for the window of this cycle
Recognize(raw, lang) ==
    /\ RecognizeStep(raw, lang)
    /\ UNCHANGED trace

\* a chunk is obtained in a run that records its chunks (at most
\* max_cycles of them): an entry of trace is the energy of a chunk and,
\* once whisper_full() has succeeded on its window, what the recognizer
\* returned
TraceCollect(max_cycles, energy) ==
    /\ cycles < max_cycles
    /\ CollectStep(energy, pcm.n_samples_step)
    /\ trace' = Append(trace, [chunk_energy |-> energy, recognized |-> FALSE,
                               raw |-> <<>>])

\* the recognizer returns raw in such a run
TraceRecognize(raw, lang) ==
    /\ RecognizeStep(raw, lang)
    /\ trace' = [trace EXCEPT ![Len(trace)] = [@ EXCEPT !.recognized = TRUE, !.raw = raw]]

\* cache_check = text + "\t" + target_lang
CacheKey(text, target_lang) == text \o <<"\t">> \o target_lang

\* the record of a translation attempt of this cycle
Attempt(text, target_lang, called, result) ==
    [made |-> TRUE, cycle |-> cycles, text |-> text, target_lang |-> target_lang,
     called |-> called, result |-> result]

\* variant: a cycle whose translation failed publishes nothing
Translate_FailureSkipsPublish(results) ==
    /\ wpc = "translate"
    /\ LET target_lang == state.target_lang
           cache_check == CacheKey(cyc.text, target_lang)
       IN IF target_lang # <<>> /\ target_lang # cyc.lang
          THEN IF cache_check = cache.cache_key
               THEN /\ cyc' = [cyc EXCEPT !.translated = cache.cache_result]
                    /\ cache' = cache
                    /\ xlat' = Attempt(cyc.text, target_lang, FALSE, cache.cache_result)
                    /\ wpc' = "publish"
               ELSE \E translated \in results :
                       /\ cyc' = [cyc EXCEPT !.translated = translated]
                       /\ cache' = [cache_key |-> cache_check,
                                    cache_result |-> translated]
                       /\ xlat' = Attempt(cyc.text, target_lang, TRUE, translated)
                       /\ wpc' = IF translated = <<>> THEN "poll" ELSE "publish"
          ELSE /\ cyc' = cyc
               /\ cache' = cache
               /\ xlat' = xlat
               /\ wpc' = "publish"
    /\ UNCHANGED <<par, pcm, trace, js, http, chunk, g_running, state, gate, emitted_ref, cycles, outcome,
                   sub, emitted>>

\* translation block: target_lang read under the lock, then the 1-entry
\* cache; translate_text() returns one of results, "" when it fails
Translate(results) ==
    /\ wpc = "translate"
    /\ LET target_lang == state.target_lang
           cache_check == CacheKey(cyc.text, target_lang)
       IN IF target_lang # <<>> /\ target_lang # cyc.lang
          THEN IF cache_check = cache.cache_key
               THEN /\ cyc' = [cyc EXCEPT !.translated = cache.cache_result]
                    /\ cache' = cache
                    /\ xlat' = Attempt(cyc.text, target_lang, FALSE, cache.cache_result)
               ELSE \E translated \in results :
                       /\ cyc' = [cyc EXCEPT !.translated = translated]
                       /\ cache' = [cache_key |-> cache_check,
                                    cache_result |-> translated]
                       /\ xlat' = Attempt(cyc.text, target_lang, TRUE, translated)
          ELSE /\ cyc' = cyc
               /\ cache' = cache
               /\ xlat' = xlat
    /\ wpc' = "publish"
    /\ UNCHANGED <<par, pcm, trace, js, http, chunk, g_running, state, gate, emitted_ref, cycles, outcome,
                   sub, emitted>>

\* variant: the fields are overwritten, the version is not incremented
Published_NoBump(st, c) ==
    [st EXCEPT !.text = c.text, !.translated = c.translated, !.language = c.lang]

\* the record the publish block leaves in state
Published(st, c) ==
    [st EXCEPT !.text = c.text, !.translated = c.translated,
               !.language = c.lang, !.version = st.version + 1]

\* publish block: text, translated, language and version under state.mtx
Publish ==
    /\ wpc = "publish"
    /\ state' = Published(state, cyc)
    /\ wpc' = "notify"
    /\ UNCHANGED <<par, pcm, trace, js, http, chunk, xlat, g_running, gate, cyc, emitted_ref, cache, cycles, outcome,
                   sub, emitted>>

\* variant: nobody is notified
NotifyAll_Nobody(sb) == sb

\* cv.notify_all(): every connection blocked in wait_for is notified
NotifyAll(sb) == [s \in Subs |-> IF sb[s].pc = "blocked"
                                 THEN [sb[s] EXCEPT !.notified = TRUE]
                                 ELSE sb[s]]

\* variant: the last-published reference is left as it was
PublishNotify_KeepsReference ==
    /\ wpc = "notify"
    /\ sub' = NotifyAll(sub)
    /\ cyc' = NoCycle
    /\ outcome' = "published"
    /\ wpc' = "poll"
    /\ UNCHANGED <<par, pcm, trace, js, http, chunk, xlat, g_running, state, gate,
                   emitted_ref, cache, cycles, emitted>>

\* notify_all after the publish, then the last-published reference
PublishNotify ==
    /\ wpc = "notify"
    /\ sub' = NotifyAll(sub)
    /\ emitted_ref' = [prev_emitted_text |-> cyc.text,
                       prev_emitted_norm |-> cyc.normalized_text,
                       has_emitted_text |-> TRUE]
    /\ cyc' = NoCycle
    /\ outcome' = "published"
    /\ wpc' = "poll"
    /\ UNCHANGED <<par, pcm, trace, js, http, chunk, xlat, g_running, state, gate, cache, cycles, emitted>>

\* graceful shutdown: state.running = false under state.mtx
ShutdownFlip ==
    /\ wpc = "shutdown"
    /\ state' = [state EXCEPT !.running = FALSE]
    /\ wpc' = "shutdown-notify"
    /\ UNCHANGED <<par, pcm, trace, js, http, chunk, xlat, g_running, gate, cyc, emitted_ref, cache, cycles, outcome,
                   sub, emitted>>

\* graceful shutdown: cv.notify_all()
ShutdownNotify ==
    /\ wpc = "shutdown-notify"
    /\ sub' = NotifyAll(sub)
    /\ wpc' = "done"
    /\ UNCHANGED <<par, pcm, trace, js, http, chunk, xlat, g_running, state, gate, cyc, emitted_ref, cache, cycles,
                   outcome, emitted>>

\* is_valid_source_lang(): "auto" or a language whisper knows
is_valid_source_lang(l) == l \in {S_ko, S_auto}

\* variant: target_lang is applied before source_lang is validated
ConfigApply_TargetBeforeValidation(r, st) ==
    IF ~r.ok THEN [status |-> 400, state |-> st]
    ELSE IF r.out.has_source_lang /\ ~is_valid_source_lang(r.out.source_lang)
    THEN [status |-> 400,
          state |-> [st EXCEPT !.target_lang = IF r.out.has_target_lang
                                               THEN r.out.target_lang ELSE @]]
    ELSE [status |-> 200,
          state |-> [st EXCEPT
              !.source_lang = IF r.out.has_source_lang THEN r.out.source_lang ELSE @,
              !.target_lang = IF r.out.has_target_lang THEN r.out.target_lang ELSE @]]

\* the handler once parse_config_update_payload() has returned r for its
\* local payload: the status answered and the record left; the fields
\* present are applied within one lock_guard
ConfigApply(r, st) ==
    IF ~r.ok THEN [status |-> 400, state |-> st]
    ELSE IF r.out.has_source_lang /\ ~is_valid_source_lang(r.out.source_lang)
    THEN [status |-> 400, state |-> st]
    ELSE [status |-> 200,
          state |-> [st EXCEPT
              !.source_lang = IF r.out.has_source_lang THEN r.out.source_lang ELSE @,
              !.target_lang = IF r.out.has_target_lang THEN r.out.target_lang ELSE @]]

\* the handler of POST /api/config
ConfigResponse(body, st) ==
    ConfigApply(parse_config_update_payload(body, EmptyPayload), st)

\* POST /api/config with a given body
ConfigPost(body) ==
    /\ LET r == ConfigResponse(body, state)
       IN /\ state' = r.state
          /\ http' = [body |-> body, status |-> r.status]
    /\ UNCHANGED <<par, pcm, trace, js, chunk, xlat, g_running, wpc, gate, cyc, emitted_ref, cache,
                   cycles, outcome, sub, emitted>>

\* ------------------------------------------------------------------------
\* /events connections (chunked content provider)
\* ------------------------------------------------------------------------

\* predicate of cv.wait_for
WaitPredicate(st, client_version) == st.version > client_version \/ ~st.running

\* event built under the lock: the three fields of the record
DataEvent(st) == <<st.text, st.translated, st.language>>

\* variant: the event is built when the version is not newer (>= for >)
ReadState_StaleData(sb, st) ==
    LET has_data == st.running /\ st.version >= sb.client_version
    IN [sb EXCEPT !.pc = "write",
                  !.notified = FALSE,
                  !.running = st.running,
                  !.next_version = IF has_data THEN st.version ELSE sb.client_version,
                  !.event = IF has_data THEN <<DataEvent(st)>> ELSE NoEvent]

\* variant: the local version advances by one, whatever version was read
ReadState_NextByOne(sb, st) ==
    LET has_data == st.running /\ st.version > sb.client_version
    IN [sb EXCEPT !.pc = "write",
                  !.notified = FALSE,
                  !.running = st.running,
                  !.next_version = IF has_data THEN sb.client_version + 1
                                   ELSE sb.client_version,
                  !.event = IF has_data THEN <<DataEvent(st)>> ELSE NoEvent]

\* the rest of the critical section once wait_for has returned
ReadState(sb, st) ==
    LET has_data == st.running /\ st.version > sb.client_version
    IN [sb EXCEPT !.pc = "write",
                  !.notified = FALSE,
                  !.running = st.running,
                  !.next_version = IF has_data THEN st.version ELSE sb.client_version,
                  !.event = IF has_data THEN <<DataEvent(st)>> ELSE NoEvent]

\* GET /events: a connection starts with client_version = 0
SubAttach(s) ==
    /\ sub[s].pc = "idle"
    /\ sub' = [sub EXCEPT ![s] = [InitSub EXCEPT !.pc = "enter",
                                                 !.attach_version = state.version]]
    /\ UNCHANGED <<par, pcm, trace, js, http, chunk, xlat, g_running, state, wpc, gate, cyc, emitted_ref, cache,
                   cycles, outcome, emitted>>

\* the provider is called: lock, wait_for evaluates the predicate; the
\* thread blocks when it is false
SubEnter(s) ==
    /\ sub[s].pc = "enter"
    /\ sub' = [sub EXCEPT ![s] =
                 IF WaitPredicate(state, sub[s].client_version)
                 THEN ReadState(sub[s], state)
                 ELSE [sub[s] EXCEPT !.pc = "blocked", !.notified = FALSE]]
    /\ UNCHANGED <<par, pcm, trace, js, http, chunk, xlat, g_running, state, wpc, gate, cyc, emitted_ref, cache,
                   cycles, outcome, emitted>>

\* a notified waiter re-acquires the lock and evaluates the predicate again
SubWake(s) ==
    /\ sub[s].pc = "blocked"
    /\ sub[s].notified
    /\ sub' = [sub EXCEPT ![s] =
                 IF WaitPredicate(state, sub[s].client_version)
                 THEN ReadState(sub[s], state)
                 ELSE [sub[s] EXCEPT !.notified = FALSE]]
    /\ UNCHANGED <<par, pcm, trace, js, http, chunk, xlat, g_running, state, wpc, gate, cyc, emitted_ref, cache,
                   cycles, outcome, emitted>>

\* variant: cv.wait without a timeout, the wait ends only on the predicate
SubTimeout_NoTimeout(s) ==
    /\ sub[s].pc = "blocked"
    /\ sub[s].notified
    /\ WaitPredicate(state, sub[s].client_version)
    /\ sub' = [sub EXCEPT ![s] = ReadState(sub[s], state)]
    /\ UNCHANGED <<par, pcm, trace, js, http, chunk, xlat, g_running, state, wpc, gate, cyc, emitted_ref, cache,
                   cycles, outcome, emitted>>

\* the 15 s of wait_for elapse: it returns whatever the predicate is
SubTimeout(s) ==
    /\ sub[s].pc = "blocked"
    /\ sub' = [sub EXCEPT ![s] = ReadState(sub[s], state)]
    /\ UNCHANGED <<par, pcm, trace, js, http, chunk, xlat, g_running, state, wpc, gate, cyc, emitted_ref, cache,
                   cycles, outcome, emitted>>

\* the locals of the provider are fresh at each call
NextCall(sb) == [sb EXCEPT !.pc = "enter", !.running = TRUE, !.event = NoEvent,
                           !.next_version = sb.client_version]

\* variant: client_version is not advanced after the data event
SubWrite_NoAdvance(s) ==
    /\ sub[s].pc = "write"
    /\ IF ~sub[s].running
       THEN /\ sub' = [sub EXCEPT ![s] = [@ EXCEPT !.pc = "closed"]]
            /\ emitted' = emitted
       ELSE IF sub[s].event # NoEvent
       THEN /\ sub' = [sub EXCEPT ![s] = NextCall([@ EXCEPT !.sent = "data"])]
            /\ emitted' = [emitted EXCEPT ![s] = Append(@, sub[s].next_version)]
       ELSE /\ sub' = [sub EXCEPT ![s] = NextCall([@ EXCEPT !.sent = "keepalive"])]
            /\ emitted' = emitted
    /\ UNCHANGED <<par, pcm, trace, js, http, chunk, xlat, g_running, state, wpc, gate, cyc, emitted_ref, cache,
                   cycles, outcome>>

\* variant: the running flag read under the lock is not tested before writing
SubWrite_IgnoreRunning(s) ==
    /\ sub[s].pc = "write"
    /\ IF sub[s].event # NoEvent
       THEN /\ sub' = [sub EXCEPT ![s] =
                         NextCall([@ EXCEPT !.client_version = sub[s].next_version,
                                            !.sent = "data"])]
            /\ emitted' = [emitted EXCEPT ![s] = Append(@, sub[s].next_version)]
       ELSE /\ sub' = [sub EXCEPT ![s] = NextCall([@ EXCEPT !.sent = "keepalive"])]
            /\ emitted' = emitted
    /\ UNCHANGED <<par, pcm, trace, js, http, chunk, xlat, g_running, state, wpc, gate, cyc, emitted_ref, cache,
                   cycles, outcome>>

\* outside the lock: sink.done() when running is false, else the data
\* event (client_version follows) or the keepalive comment
SubWrite(s) ==
    /\ sub[s].pc = "write"
    /\ IF ~sub[s].running
       THEN /\ sub' = [sub EXCEPT ![s] = [@ EXCEPT !.pc = "closed"]]
            /\ emitted' = emitted
       ELSE IF sub[s].event # NoEvent
       THEN /\ sub' = [sub EXCEPT ![s] =
                         NextCall([@ EXCEPT !.client_version = sub[s].next_version,
                                            !.sent = "data"])]
            /\ emitted' = [emitted EXCEPT ![s] = Append(@, sub[s].next_version)]
       ELSE /\ sub' = [sub EXCEPT ![s] = NextCall([@ EXCEPT !.sent = "keepalive"])]
            /\ emitted' = emitted
    /\ UNCHANGED <<par, pcm, trace, js, http, chunk, xlat, g_running, state, wpc, gate, cyc, emitted_ref, cache,
                   cycles, outcome>>

\* sink.write() fails (the client went away): the provider returns false
SubWriteFail(s) ==
    /\ sub[s].pc = "write"
    /\ sub[s].running
    /\ sub' = [sub EXCEPT ![s] = [@ EXCEPT !.pc = "closed"]]
    /\ UNCHANGED <<par, pcm, trace, js, http, chunk, xlat, g_running, state, wpc, gate, cyc, emitted_ref, cache,
                   cycles, outcome, emitted>>

\* ------------------------------------------------------------------------
\* Calls of the JSON codec
\* ------------------------------------------------------------------------

\* characters of the values that are encoded: the quote, the backslash, two
\* control characters, and the letters of an escape
EncodedValues ==
    UNION {[1..n -> {"\"", "\\", "\n", "SOH", "u", "/"}] : n \in 0..MaxValueLen}

\* language codes without any character that needs an escape
PlainValues == {<<>>, S_en, S_ko}

\* the same key twice (and three times) with string values
DuplicateTexts(key) ==
    {RawObject2(key, v1, key, v2) : v1 \in PlainValues, v2 \in PlainValues}
    \cup {<<"{">> \o RawField(key, S_en) \o <<",", " ">> \o RawField(<<"k">>, S_ko)
          \o <<",">> \o RawField(key, S_ko) \o <<",">> \o RawField(key, <<>>)
          \o <<" ", "}">>}

\* one malformed string token of each kind: not terminated, a control
\* character inside, a high surrogate alone or followed by something else,
\* a low surrogate alone
MalformedRaws ==
    { <<"e", "SOH", "n">>,
      <<"e", "\n">>,
      <<"\\", "u", "d", "8", "3", "d">>,
      <<"\\", "u", "d", "8", "3", "d", "\\", "u", "0", "0", "4", "1">>,
      <<"\\", "u", "d", "8", "3", "d", "e", "n">>,
      <<"\\", "u", "d", "e", "0", "0">> }

\* the malformed texts: a malformed string as the value of either key, alone
\* or after a well-formed other field; a string that is never closed; data
\* after the closing brace
MalformedTexts ==
    {RawObject(K_target_lang, raw) : raw \in MalformedRaws}
    \cup {RawObject(K_source_lang, raw) : raw \in MalformedRaws}
    \cup {RawObject2(K_target_lang, S_en, K_source_lang, raw) : raw \in MalformedRaws}
    \cup {RawObject2(K_source_lang, S_ko, K_target_lang, raw) : raw \in MalformedRaws}
    \cup {<<"{", "\"">> \o K_target_lang \o <<"\"", ":", "\"", "e", "n">>,
          <<"{", "\"">> \o K_target_lang \o <<"\"", ":", "\"", "e", "n", "}">>,
          <<"{">> \o RawField(K_source_lang, S_ko) \o <<",", "\"">> \o K_target_lang,
          RawObject(K_target_lang, S_en) \o <<"x">>,
          RawObject(K_target_lang, S_en) \o <<" ", "}">>,
          RawObject(K_source_lang, S_ko) \o <<"{", "}">>,
          RawObject2(K_source_lang, S_ko, K_target_lang, S_en) \o <<",">>}

\* malformed bodies of a configuration update, each with a well-formed
\* target_lang before the place where the text goes wrong
MalformedBodies ==
    {RawObject2(K_target_lang, S_en, K_source_lang, raw) : raw \in MalformedRaws}
    \cup {RawObject(K_target_lang, S_en) \o <<"x">>,
          <<"{">> \o RawField(K_target_lang, S_en) \o <<",", "\"">> \o K_source_lang}

\* texts that are no JSON object although every string in them is well
\* formed: the value of a key nobody asks for is a bare word, a token with a
\* quote inside or a lone sign, at top level or nested; the text ends after
\* a comma
IllFormedTexts ==
    {<<"{">> \o <<"\"", "k", "\"", ":">> \o v \o <<",">>
         \o RawField(K_target_lang, S_en) \o <<"}">> :
        v \in {<<"a", "b">>, <<"a", "\"", "b">>, <<"/">>,
               <<"[", "a", "\"", "]">>, <<"{", "\"", "x", "\"", ":", "?", "}">>}}
    \cup {<<"{">> \o RawField(K_target_lang, S_en) \o <<",", "\"", "k", "\"", ":",
                                                     "t", "r", "u", "}">>,
          <<"{">> \o RawField(K_target_lang, S_en) \o <<",">>,
          <<"{">> \o RawField(K_target_lang, S_en) \o <<",", " ">>}

\* the texts the codec is handed: a key twice or three times; string tokens
\* with every kind of escape; other well-formed objects; the malformed ones
JsonTexts ==
    DuplicateTexts(K_target_lang) \cup DuplicateTexts(K_source_lang)
    \cup {RawObject(K_target_lang, raw) :
             raw \in { <<"\\", "/", "\\", "b", "\\", "f">>,
                       <<"\\", "u", "0", "0", "4", "1">>,
                       <<"\\", "u", "0", "0", "e", "9">>,
                       <<"\\", "u", "2", "0", "A", "C">>,
                       <<"\\", "u", "d", "8", "3", "d", "\\", "u", "d", "e", "0", "0">>,
                       <<"a", "\\", "u", "0", "0", "0", "0", "\\", "t">> }}
    \cup {RawObject2(K_source_lang, S_ko, K_target_lang, S_en),
          RawObject(K_source_lang, S_auto),
          <<" ", "{", " ">> \o RawField(<<"k">>, S_ko) \o <<",">>
              \o RawField(K_target_lang, S_en) \o <<"}", "\n">>,
          <<"{">> \o <<"\"", "k", "\"", ":", "[", "1", ",", "{", "}", "]", ",">>
              \o RawField(K_target_lang, S_en) \o <<"}">>}
    \cup MalformedTexts \cup IllFormedTexts

\* what the caller's string holds before json_get_string_field() is called
PriorOuts == {<<>>, <<"o", "l", "d">>}

\* a codec call that has returned r
Returned(r) == [done |-> TRUE, ok |-> r.ok, out |-> r.out]

\* a value is encoded as the one field of an object
JsonEncode ==
    /\ js.origin = "value"
    /\ js.text = <<>>
    /\ js' = [js EXCEPT !.text = ObjectOf(K_target_lang, js.value)]
    /\ UNCHANGED <<par, pcm, trace, g_running, state, wpc, gate, cyc, emitted_ref, cache, cycles,
                   outcome, chunk, xlat, http, sub, emitted>>

\* json_get_string_field(text, "target_lang", out)
JsonGet ==
    /\ js.text # <<>>
    /\ ~js.get.done
    /\ js' = [js EXCEPT !.get =
                 Returned(json_get_string_field(js.text, K_target_lang, js.prior))]
    /\ UNCHANGED <<par, pcm, trace, g_running, state, wpc, gate, cyc, emitted_ref, cache, cycles,
                   outcome, chunk, xlat, http, sub, emitted>>

\* parse_config_update_payload(text, payload) with a fresh payload
JsonPayload ==
    /\ js.text # <<>>
    /\ ~js.cfg.done
    /\ js' = [js EXCEPT !.cfg =
                 Returned(parse_config_update_payload(js.text, EmptyPayload))]
    /\ UNCHANGED <<par, pcm, trace, g_running, state, wpc, gate, cyc, emitted_ref, cache, cycles,
                   outcome, chunk, xlat, http, sub, emitted>>

\* the value decoded is encoded again and the result decoded
JsonAgain ==
    /\ js.get.done
    /\ js.get.ok
    /\ ~js.again.done
    /\ js' = [js EXCEPT !.again =
                 Returned(json_get_string_field(ObjectOf(K_target_lang, js.get.out),
                                                K_target_lang, js.prior))]
    /\ UNCHANGED <<par, pcm, trace, g_running, state, wpc, gate, cyc, emitted_ref, cache, cycles,
                   outcome, chunk, xlat, http, sub, emitted>>

\* ------------------------------------------------------------------------
\* Specifications
\* ------------------------------------------------------------------------

\* The production thread with every configuration and every input, the
\* stop signal and configuration updates; no /events connection.
Init ==
    /\ par \in [use_vad : BOOLEAN, vad_thold : {6}, translate : BOOLEAN]
    /\ js = NoJson
    /\ pcm = InitPcm(1, 1, 0)
    /\ InitCommon

Next ==
    \/ Signal
    \/ LoopExit
    \/ SdlQuit
    \/ Overrun
    \/ \E energy \in Energies : Collect(MaxCycles, energy, pcm.n_samples_step)
    \/ RecognizeFail
    \/ \E raw \in { <<" ">>, <<"a">>, <<" ", "A", "!">>, <<"b">>, <<"!">>,
                     <<"a", " ", "a", " ", "a", " ", "a", " ", "a">> },
          lang \in {S_ko, <<"?", "?">>} :
           Recognize(raw, lang)
    \/ Translate(TranslatorResults)
    \/ Publish
    \/ PublishNotify
    \/ ShutdownFlip
    \/ ShutdownNotify
    \/ \E body \in ConfigBodies : ConfigPost(body)

Spec == Init /\ [][Next]_vars

\* The production thread run with --no-vad and without --translate-url on
\* loud chunks, the stop signal, and the /events connections.
LoudEnergies == {1000000}

ShortTexts == {<<"a">>, <<"b">>}

InitBroadcast ==
    /\ par = [use_vad |-> FALSE, vad_thold |-> 6, translate |-> FALSE]
    /\ js = NoJson
    /\ pcm = InitPcm(1, 1, 0)
    /\ InitCommon

NextBroadcast ==
    \/ Signal
    \/ LoopExit
    \/ \E energy \in LoudEnergies : Collect(MaxCycles, energy, pcm.n_samples_step)
    \/ RecognizeFail
    \/ \E raw \in ShortTexts : Recognize(raw, S_ko)
    \/ Publish
    \/ PublishNotify
    \/ ShutdownFlip
    \/ ShutdownNotify
    \/ \E s \in Subs : SubAttach(s)
    \/ \E s \in Subs : SubEnter(s)
    \/ \E s \in Subs : SubWake(s)
    \/ \E s \in Subs : SubTimeout(s)
    \/ \E s \in Subs : SubWrite(s)
    \/ \E s \in Subs : SubWriteFail(s)

BroadcastSpec == InitBroadcast /\ [][NextBroadcast]_vars

\* The voice gate over a longer run of chunks, with and without --no-vad and
\* for several --vad-thold: every admitted chunk fails in whisper_full(), so
\* the loop only collects and gates.
VadTholds == {0, 6}

NextGate ==
    \/ \E energy \in {1000, 5000, 10000, 1000000} :
           Collect(MaxGateCycles, energy, pcm.n_samples_step)
    \/ RecognizeFail

GateSpec ==
    /\ InitWith([use_vad : BOOLEAN, vad_thold : VadTholds, translate : {FALSE}],
                {NoJson},
                {InitPcm(1, 1, 0)})
    /\ [][NextGate]_vars

\* The JSON codec on its own: a value to encode and decode again, or a text
\* to decode with both entry points.
NextJson == JsonEncode \/ JsonGet \/ JsonPayload \/ JsonAgain

JsonSpec ==
    /\ InitWith({[use_vad |-> TRUE, vad_thold |-> 6, translate |-> FALSE]},
                {[NoJson EXCEPT !.origin = "value", !.value = v, !.prior = o] :
                     v \in EncodedValues, o \in PriorOuts}
                \cup {[NoJson EXCEPT !.origin = "text", !.text = t, !.prior = o] :
                     t \in JsonTexts, o \in PriorOuts},
                {InitPcm(1, 1, 0)})
    /\ [][NextJson]_vars

\* Configuration updates of every kind, well-formed and malformed, while the
\* production thread recognizes, translates and publishes.
NextConfig ==
    \/ \E body \in {PayloadBody(p) : p \in Payloads} \cup MalformedBodies :
           ConfigPost(body)
    \/ \E energy \in LoudEnergies : Collect(MaxCycles, energy, pcm.n_samples_step)
    \/ \E raw \in ShortTexts : Recognize(raw, S_ko)
    \/ Translate(TranslatorResults)
    \/ Publish
    \/ PublishNotify

ConfigSpec ==
    /\ InitWith({[use_vad |-> FALSE, vad_thold |-> 6, translate |-> TRUE]},
                {NoJson},
                {InitPcm(1, 1, 0)})
    /\ [][NextConfig]_vars

\* The translation block with its 1-entry cache: texts with and without a
\* tab inside and of punctuation only, target languages set by
\* configuration updates, a translator that answers or fails.
NextTranslate ==
    \/ \E t \in {<<"c">>, <<"b", "\t", "c">>} : ConfigPost(ObjectOf(K_target_lang, t))
    \/ \E energy \in LoudEnergies : Collect(MaxCycles, energy, pcm.n_samples_step)
    \/ \E raw \in {<<"!">>, <<"a">>, <<"a", "\t", "b">>} : Recognize(raw, S_ko)
    \/ Translate(TranslatorResults)
    \/ Publish
    \/ PublishNotify

TranslateSpec ==
    /\ InitWith({[use_vad |-> FALSE, vad_thold |-> 6, translate |-> TRUE]},
                {NoJson},
                {InitPcm(1, 1, 0)})
    /\ [][NextTranslate]_vars

\* The broadcast with scheduling, the recognizer returning one same text: a
\* thread that can take its next step takes it, and the timeout of wait_for
\* fires.  Nothing forces the stop signal, the delivery of audio, a new
\* connection or the failure of a write.
NextLive ==
    \/ Signal
    \/ LoopExit
    \/ \E energy \in LoudEnergies : Collect(MaxCycles, energy, pcm.n_samples_step)
    \/ RecognizeFail
    \/ Recognize(<<"a">>, S_ko)
    \/ Publish
    \/ PublishNotify
    \/ ShutdownFlip
    \/ ShutdownNotify
    \/ \E s \in Subs : SubAttach(s)
    \/ \E s \in Subs : SubEnter(s)
    \/ \E s \in Subs : SubWake(s)
    \/ \E s \in Subs : SubTimeout(s)
    \/ \E s \in Subs : SubWrite(s)
    \/ \E s \in Subs : SubWriteFail(s)

FairBroadcastSpec ==
    /\ InitBroadcast
    /\ [][NextLive]_vars
    /\ WF_vars(LoopExit \/ Publish \/ PublishNotify \/ ShutdownFlip \/ ShutdownNotify)
    /\ \A s \in Subs : /\ WF_vars(SubEnter(s))
                        /\ WF_vars(SubWake(s))
                        /\ WF_vars(SubTimeout(s))
                        /\ WF_vars(SubWrite(s))

\* The same broadcast where nothing forces the timeout of wait_for either:
\* a blocked connection is only certain to go on when it has been notified.
NotifiedBroadcastSpec ==
    /\ InitBroadcast
    /\ [][NextLive]_vars
    /\ WF_vars(LoopExit \/ Publish \/ PublishNotify \/ ShutdownFlip \/ ShutdownNotify)
    /\ \A s \in Subs : /\ WF_vars(SubEnter(s))
                        /\ WF_vars(SubWake(s))
                        /\ WF_vars(SubWrite(s))

\* The production thread with the VAD on, without translation, over near
\* silence and speech, the recognizer returning one of three texts; the run
\* records the energies obtained and the texts returned.
T_hello_world == <<"h", "e", "l", "l", "o", " ", "w", "o", "r", "l", "d">>

T_Hello_World == <<"H", "e", "l", "l", "o", " ", "W", "o", "r", "l", "d", "!">>

NextTrace ==
    \/ \E energy \in {1000, 1000000} : TraceCollect(MaxTraceCycles, energy)
    \/ \E raw \in {T_hello_world, T_Hello_World, <<"b">>} : TraceRecognize(raw, S_en)
    \/ RecognizeFail
    \/ Publish
    \/ PublishNotify

TraceSpec ==
    /\ InitWith([use_vad : {TRUE}, vad_thold : VadTholds, translate : {FALSE}],
                {NoJson},
                {InitPcm(1, 1, 0)})
    /\ [][NextTrace]_vars

\* The first cycles of the voice gate, with and without --no-vad: digital
\* silence, near silence up to the limit of 0.00002, quiet and loud chunks
\* in every order; every
\* admitted chunk fails in whisper_full().
NextWarmup ==
    \/ \E energy \in {0, 1000, 1999, 2000, 10000, 20000, 40000, 1000000} :
           Collect(MaxWarmupCycles, energy, pcm.n_samples_step)
    \/ RecognizeFail

WarmupSpec ==
    /\ InitWith([use_vad : BOOLEAN, vad_thold : VadTholds, translate : {FALSE}],
                {NoJson},
                {InitPcm(1, 1, 0)})
    /\ [][NextWarmup]_vars

\* The window assembly for several --step, --length and --keep as given on
\* the command line, chunks of the step, of one sample more and of twice the
\* step, near-silent and loud, with and without --no-vad; every admitted chunk fails in whisper_full().
NextWindow ==
    \/ \E energy \in {1000, 1000000},
          n \in {pcm.n_samples_step, pcm.n_samples_step + 1, 2 * pcm.n_samples_step} :
           Collect(MaxWindowCycles, energy, n)
    \/ RecognizeFail

WindowSpec ==
    /\ InitWith([use_vad : BOOLEAN, vad_thold : {6}, translate : {FALSE}],
                {NoJson},
                {InitPcm(step_ms, length_ms, keep_ms) :
                    step_ms \in {1}, length_ms \in {1, 2, 3}, keep_ms \in {0, 1, 2}})
    /\ [][NextWindow]_vars

\* The stability filter on repetitive texts, without the VAD and without
\* translation: the recognizer returns a short text, a token ten times, a
\* short text followed by four or five copies of a token, or a text with a
\* dominant token or a run of five; the run records the texts returned.
RECURSIVE Repeated(_, _)
\* n copies of token separated by one space
Repeated(token, n) ==
    IF n <= 1 THEN token ELSE token \o <<" ">> \o Repeated(token, n - 1)

\* tokens of a letter, a digit, punctuation only, and a letter with
\* punctuation at both ends
RepeatTokens == {<<"b">>, <<"7">>, <<"!">>, <<"?", "B", "!">>}

\* short texts, one of punctuation only
ShortCandidates == {<<"a">>, <<"!">>, <<"b", " ", "c">>}

NextFilter ==
    \/ \E energy \in LoudEnergies : TraceCollect(MaxFilterCycles, energy)
    \/ \E raw \in ShortCandidates
                  \cup {Repeated(t, 10) : t \in RepeatTokens}
                  \cup {p \o <<" ">> \o Repeated(t, n) :
                           p \in ShortCandidates, t \in RepeatTokens, n \in {4, 5}}
                  \cup {<<"a", "b">> \o <<" ">> \o Repeated(<<"b">>, 3),
                        Repeated(<<"a">>, 3) \o <<" ", "b", " ">> \o Repeated(<<"a">>, 3)
                            \o <<" ", "c">>,
                        Repeated(<<"!">>, 3) \o <<" ", "b", " ">> \o Repeated(<<"!">>, 3)
                            \o <<" ", "c">>,
                        <<"c", " ">> \o Repeated(<<"a">>, 5),
                        Repeated(<<"?">>, 5)} :
           TraceRecognize(raw, S_en)
    \/ Publish
    \/ PublishNotify

FilterSpec ==
    /\ InitWith({[use_vad |-> FALSE, vad_thold |-> 6, translate |-> FALSE]},
                {NoJson},
                {InitPcm(1, 1, 0)})
    /\ [][NextFilter]_vars

\* ------------------------------------------------------------------------
\* Properties
\* ------------------------------------------------------------------------

PubFields(st) == <<st.text, st.translated, st.language>>

StrictlyIncreasing(seq) == \A i \in 1..Len(seq) - 1 : seq[i] < seq[i + 1]

Connected(s) == sub[s].pc \in {"enter", "blocked", "write"}

\* C1: the published version never decreases; a step that changes it adds
\* exactly 1 and overwrites text, translated and language with the values of
\* the cycle; no step changes one of the three without changing the version.
C1_VersionWithFields ==
    [][ /\ state'.version >= state.version
        /\ state'.version # state.version =>
              /\ state'.version = state.version + 1
              /\ PubFields(state') = <<cyc.text, cyc.translated, cyc.lang>>
        /\ PubFields(state') # PubFields(state) => state'.version # state.version
      ]_vars

\* a second publish happened and it carried a translation
C1_Witness == state.version = 2 /\ state.translated # <<>> /\ state.text # <<>>

\* C2: the versions of the data events a connection writes are strictly
\* increasing: no version twice, no older version after a newer one.
C2_EmittedIncreasing == \A s \in Subs : StrictlyIncreasing(emitted[s])

\* a connection has written two data events
C2_Witness == \E s \in Subs : Len(emitted[s]) >= 2

\* C3: a connection that was open before the last publish and ends because
\* running became false has written the data event of the last version.
C3_FinalStateDelivered ==
    \A s \in Subs :
        (/\ sub[s].pc = "closed"
         /\ ~sub[s].running
         /\ sub[s].attach_version < state.version)
        => (emitted[s] # <<>> /\ Last(emitted[s]) = state.version)

\* C4 as stated: a connection that has caught up has written exactly the
\* versions published after its attach point, one event each, in order.
C4_ExactlyPublishesAfterAttach ==
    \A s \in Subs :
        (sub[s].pc = "blocked" /\ sub[s].client_version = state.version)
        => emitted[s] = [i \in 1..(state.version - sub[s].attach_version)
                           |-> sub[s].attach_version + i]

\* C4 amended: a connection writes at most one data event per published
\* version, in publish order; of the states published up to its attach point
\* it can write only the latest one, so it writes at most one event more than
\* there were publishes after the attach point; publishes can be skipped.
C4_AtMostOncePerPublish ==
    \A s \in Subs :
        /\ StrictlyIncreasing(emitted[s])
        /\ \A i \in 1..Len(emitted[s]) :
              /\ emitted[s][i] >= 1
              /\ emitted[s][i] >= sub[s].attach_version
              /\ emitted[s][i] <= state.version
        /\ Len(emitted[s]) <= state.version - sub[s].attach_version + 1

\* two connections attached at different times, both wrote both versions
C4_Witness ==
    \E s, t \in Subs :
        /\ sub[s].attach_version = 0 /\ emitted[s] = <<1, 2>>
        /\ sub[t].attach_version = 1 /\ emitted[t] = <<1, 2>>

\* C5: client_version never exceeds the published version, and it never
\* decreases while the connection lives.
C5_ClientVersionBounded ==
    /\ [](\A s \in Subs : sub[s].client_version <= state.version)
    /\ [][\A s \in Subs : sub[s].pc # "idle" =>
              sub'[s].client_version >= sub[s].client_version]_vars

\* a connection has followed the version up to 2
C5_Witness == \E s \in Subs : sub[s].client_version = 2 /\ state.version = 2

\* running is false and the connection cannot write an event any more
Doomed(s) ==
    /\ ~state.running
    /\ \/ sub[s].pc \in {"enter", "blocked", "closed"}
       \/ sub[s].pc = "write" /\ ~sub[s].running

\* C6: once running is false, a connection that is blocked in the wait or
\* about to enter it writes no data event and no keepalive any more, and it
\* eventually observes running = false and terminates.
C6_ShutdownClosesSubscribers ==
    /\ [][\A s \in Subs : Doomed(s) =>
              /\ Doomed(s)'
              /\ emitted'[s] = emitted[s]
              /\ sub'[s].sent = sub[s].sent
              /\ sub'[s].client_version = sub[s].client_version]_vars
    /\ \A s \in Subs :
          (~state.running /\ sub[s].pc \in {"enter", "blocked"}) ~> (sub[s].pc = "closed")

\* the shutdown is over and a connection that had written an event ended on it
C6_Witness ==
    /\ wpc = "done"
    /\ \E s \in Subs : sub[s].pc = "closed" /\ ~sub[s].running /\ sub[s].sent # "none"

\* C7: a blocked connection does not stay blocked; a wait that ends with
\* running true and no newer version yields no data event, and the write
\* that follows is the keepalive: client_version is unchanged and the
\* provider is called again.
C7_WaitEndsAndKeepalive ==
    /\ \A s \in Subs : (sub[s].pc = "blocked") ~> (sub[s].pc # "blocked")
    /\ [][\A s \in Subs :
            /\ (/\ sub[s].pc = "blocked" /\ sub'[s].pc = "write"
                /\ state.running /\ state.version = sub[s].client_version)
               => (sub'[s].running /\ sub'[s].event = NoEvent)
            /\ (/\ sub[s].pc = "write" /\ sub[s].running /\ sub[s].event = NoEvent
                /\ sub'[s] # sub[s])
               => \/ sub'[s].pc = "closed" /\ sub'[s].sent = sub[s].sent
                  \/ /\ sub'[s].pc = "enter"
                     /\ sub'[s].sent = "keepalive"
                     /\ sub'[s].client_version = sub[s].client_version
                     /\ emitted'[s] = emitted[s]
         ]_vars

\* a connection that had followed version 1 wrote a keepalive and waits again
C7_Witness ==
    \E s \in Subs : /\ sub[s].sent = "keepalive" /\ sub[s].pc = "blocked"
                    /\ sub[s].client_version = 1 /\ emitted[s] = <<1>>

\* C8: a cycle that has its chunk when the stop signal arrives does not
\* publish: the version is not incremented once g_running is false.
C8_NoPublishAfterStop ==
    [][(~g_running /\ wpc \in {"infer", "translate", "publish"})
         => state'.version = state.version]_vars

\* C9: running changes only once, from true to false, in the shutdown block
\* after the loop; it never returns to true and the version never changes
\* after it; when the production thread is done, running is false.
C9_RunningFlipsOnce ==
    /\ [][ /\ state'.running # state.running =>
                (state.running /\ wpc = "shutdown" /\ wpc' = "shutdown-notify")
           /\ ~state.running => (~state'.running /\ state'.version = state.version)
         ]_vars
    /\ [](wpc \in {"shutdown-notify", "done"} <=> ~state.running)

\* the thread is done after two publishes
C9_Witness == wpc = "done" /\ ~state.running /\ state.version = 2

\* outcomes of a cycle or poll that does not publish
RejectOutcomes == {"overrun", "hard-silence", "warmup", "vad-skip", "whisper-failed",
                   "empty-text", "duplicate-text", "dominant-token-ratio",
                   "consecutive-token-repeat", "suffix-single-token-repeat"}

\* C10: a step of a production cycle either is the publish (version + 1 and
\* the three fields overwritten) or leaves version, text, translated and
\* language unchanged; the last-published reference changes only right after
\* the publish of the same cycle; a cycle that ends rejected changes nothing.
C10_PublishOrUnchanged ==
    [][ /\ \/ /\ wpc = "publish" /\ wpc' = "notify"
              /\ state'.version = state.version + 1
              /\ PubFields(state') = <<cyc.text, cyc.translated, cyc.lang>>
           \/ /\ state'.version = state.version
              /\ PubFields(state') = PubFields(state)
        /\ emitted_ref' # emitted_ref =>
              (wpc = "notify" /\ outcome' = "published"
               /\ emitted_ref'.prev_emitted_text = state.text)
        /\ (wpc' = "poll" /\ outcome' \in RejectOutcomes) =>
              /\ state'.version = state.version
              /\ PubFields(state') = PubFields(state)
              /\ emitted_ref' = emitted_ref
      ]_vars

\* a candidate was dropped as a duplicate after a publish
C10_Witness == outcome = "duplicate-text" /\ state.version = 1 /\ wpc = "poll"

\* ------------------------------------------------------------------------
\* The voice gate
\* ------------------------------------------------------------------------

\* C11: a chunk whose energy is below 0.00002 is never admitted to
\* recognition: the cycle that obtained it goes back to polling with nothing
\* published, whatever --vad-thold, with or without --no-vad, in every warmup
\* state and for every value of the stall counter.
C11_HardSilenceNeverAdmitted ==
    [][(cycles' # cycles /\ chunk'.chunk_energy < 2000)
       => (wpc' = "poll" /\ outcome' = "hard-silence" /\ state' = state)]_vars

\* a near-silent chunk arrives when the stall counter stands at 6
C11_Witness ==
    /\ par.use_vad
    /\ chunk.verdict = "hard-silence"
    /\ chunk.chunk_energy < 2000
    /\ gate.vad_stall_chunks >= 6

\* C12: with the VAD on, chunks whose energy is at least
\* max(0.00002, stall gate) are not locked out: once the warmup is over no 6
\* of them in a row are all rejected, and counting the at most 2 chunks the
\* warmup rejects no 8 in a row are, so that a run of such chunks is admitted
\* again and again.
C12_NoLockOut ==
    par.use_vad => (chunk.rejected_after_warmup <= 5 /\ chunk.rejected_run <= 7)

\* the sixth chunk in a row below the energy gate is let through
C12_Witness ==
    /\ par.use_vad
    /\ chunk.verdict = "stall-bypass"
    /\ wpc = "infer"
    /\ chunk.chunk_energy < chunk.energy_gate

\* ------------------------------------------------------------------------
\* The stability filter
\* ------------------------------------------------------------------------

\* C13: a candidate whose normal form equals the normal form of the last
\* published text is dropped, texts whose normal form is empty included: no
\* publish writes a text with the normal form of the text it replaces.
C13_NormalizedDuplicateDropped ==
    [][(state'.version # state.version /\ state.version > 0)
       => normalize_for_dedup(state'.text) # normalize_for_dedup(state.text)]_vars

\* ------------------------------------------------------------------------
\* Failures inside a cycle
\* ------------------------------------------------------------------------

\* translate_text() was called in the current cycle and returned ""
TranslationFailed(x) == x.made /\ x.cycle = cycles /\ x.called /\ x.result = <<>>

\* C16: a cycle in which whisper_full() fails or yields an empty text
\* publishes nothing and goes back to polling; a cycle whose translation
\* fails still publishes, with translated empty and the version one higher;
\* neither failure changes g_running or state.running or takes the loop to
\* its shutdown.
C16_FailuresKeepLoopRunning ==
    [][/\ (wpc = "infer" /\ wpc' # wpc /\ outcome' \in {"whisper-failed", "empty-text"})
          => (state' = state /\ wpc' = "poll" /\ g_running' = g_running)
       /\ (wpc = "translate" /\ wpc' # wpc /\ TranslationFailed(xlat'))
          => (state' = state /\ wpc' = "publish" /\ g_running' = g_running
              /\ cyc'.translated = <<>>)
       /\ (wpc = "publish" /\ wpc' # wpc /\ TranslationFailed(xlat))
          => (/\ state'.version = state.version + 1
              /\ state'.text = cyc.text
              /\ state'.translated = <<>>
              /\ state'.running = state.running
              /\ wpc' = "notify"
              /\ g_running' = g_running)]_vars

\* a text is published without translation because translate_text() failed,
\* and the loop polls for the next chunk
C16_Witness ==
    /\ TranslationFailed(xlat)
    /\ outcome = "published"
    /\ state.version = 1
    /\ state.text # <<>>
    /\ state.translated = <<>>
    /\ wpc = "poll"
    /\ state.running

\* ------------------------------------------------------------------------
\* The JSON codec
\* ------------------------------------------------------------------------

\* C17: when the key asked for appears twice at top level with string
\* values, json_get_string_field() succeeds and returns the value of the
\* first occurrence.
C17_FirstOccurrenceWins ==
    \A v1 \in PlainValues, v2 \in PlainValues :
        (js.get.done /\ js.text = RawObject2(K_target_lang, v1, K_target_lang, v2))
        => (js.get.ok /\ js.get.out = v1)

\* "en" is returned for a text with target_lang "en" and then "ko"
C17_Witness ==
    /\ js.get.done
    /\ js.text = RawObject2(K_target_lang, S_en, K_target_lang, S_ko)
    /\ js.get.ok
    /\ js.get.out = S_en

\* C18: when source_lang or target_lang appears twice in the payload,
\* parse_config_update_payload() places the value of the first occurrence
\* in the record.
C18_PayloadFirstOccurrenceWins ==
    \A v1 \in PlainValues, v2 \in PlainValues :
        /\ (js.cfg.done /\ js.text = RawObject2(K_target_lang, v1, K_target_lang, v2))
           => (js.cfg.ok /\ js.cfg.out.has_target_lang /\ js.cfg.out.target_lang = v1)
        /\ (js.cfg.done /\ js.text = RawObject2(K_source_lang, v1, K_source_lang, v2))
           => (js.cfg.ok /\ js.cfg.out.has_source_lang /\ js.cfg.out.source_lang = v1)

\* C19: for a malformed text (a string not terminated, a control character
\* inside a string, a high surrogate without its low surrogate, a low
\* surrogate alone, data after the closing brace) json_get_string_field()
\* and parse_config_update_payload() both fail and leave their output
\* argument as it was before the call.
C19_FailureLeavesOutputUntouched ==
    js.text \in MalformedTexts
    => /\ js.get.done => (~js.get.ok /\ js.get.out = js.prior)
       /\ js.cfg.done => (~js.cfg.ok /\ js.cfg.out = EmptyPayload)

\* C20: decoding the object built by json_str() for a value returns that
\* value, whatever quotes, backslashes and control characters it holds; and
\* the value decoded from any text is returned again when it is encoded and
\* decoded once more.
C20_RoundTrip ==
    /\ (js.origin = "value" /\ js.get.done) => (js.get.ok /\ js.get.out = js.value)
    /\ js.again.done => (js.again.ok /\ js.again.out = js.get.out)

\* a value of a quote, a backslash and a control character came back, and
\* once more after being encoded again
C20_Witness ==
    /\ js.origin = "value"
    /\ js.value = <<"\"", "\\", "SOH">>
    /\ js.get.done
    /\ js.get.out = js.value
    /\ js.again.done
    /\ js.again.out = js.value

\* ------------------------------------------------------------------------
\* Configuration updates
\* ------------------------------------------------------------------------

\* the languages of the shared record
Langs(st) == <<st.source_lang, st.target_lang>>

\* C15: a configuration update that is rejected (a malformed body, neither
\* field present, a source language whisper does not know) is answered with
\* status 400 and changes neither source_lang nor target_lang, even when the
\* body carries a well-formed target_lang; an accepted update sets, in the
\* one step that holds the lock, every field it carries and nothing else.
C15_RejectedChangesNothing ==
    [][(http' # http) =>
         /\ http'.status \in {200, 400}
         /\ http'.status = 400 => state' = state
         /\ http'.body \in MalformedBodies => http'.status = 400
         /\ \A p \in Payloads :
               http'.body = PayloadBody(p) =>
                  IF \/ ~p.has_source_lang /\ ~p.has_target_lang
                     \/ p.has_source_lang /\ p.source_lang \notin {S_ko, S_auto}
                  THEN http'.status = 400
                  ELSE /\ http'.status = 200
                       /\ state' = [state EXCEPT
                              !.source_lang = IF p.has_source_lang
                                              THEN p.source_lang ELSE @,
                              !.target_lang = IF p.has_target_lang
                                              THEN p.target_lang ELSE @]]_vars

\* an update with target_lang "en" and the unknown source_lang "xx" was
\* rejected after an accepted one had set "auto" and "": both are still there
C15_Witness ==
    /\ http.status = 400
    /\ http.body = RawObject2(K_source_lang, S_xx, K_target_lang, S_en)
    /\ state.source_lang = S_auto
    /\ state.target_lang = <<>>
    /\ state.version = 1

\* ------------------------------------------------------------------------
\* The translation cache
\* ------------------------------------------------------------------------

\* C14: of two consecutive translation attempts with the same text and
\* target_lang only the first calls translate_text(), the second returns
\* the stored result, empty or not, and leaves the cache as it is; an
\* attempt whose text or target_lang differs from that of the attempt
\* before it calls translate_text() and stores its own key and result.
C14_TranslatorCalledOncePerPair ==
    [][(wpc = "translate" /\ xlat' # xlat) =>
         IF /\ xlat.made
            /\ xlat'.text = xlat.text
            /\ xlat'.target_lang = xlat.target_lang
         THEN /\ ~xlat'.called
              /\ xlat'.result = xlat.result
              /\ cyc'.translated = xlat.result
              /\ cache' = cache
         ELSE /\ xlat'.called
              /\ cache'.cache_key = xlat'.text \o <<"\t">> \o xlat'.target_lang
              /\ cache'.cache_result = xlat'.result
              /\ cyc'.translated = xlat'.result]_vars

\* ------------------------------------------------------------------------
\* End to end
\* ------------------------------------------------------------------------

\* the run so far obtained chunks of exactly these energies
Heard(energies) ==
    /\ Len(trace) = Len(energies)
    /\ \A i \in 1..Len(energies) : trace[i].chunk_energy = energies[i]

\* the recognizer returned raw for the i-th chunk
Returned_i(i, raw) == trace[i].recognized /\ trace[i].raw = raw

\* C21: with the VAD on and from the initial state, a first chunk of energy
\* 0.00001 is rejected as near silence and nothing is published; a second
\* chunk of energy 0.01 is admitted and, the recognizer returning
\* "hello world", published with the version going from 0 to 1; a third
\* chunk of energy 0.01 is admitted and, the recognizer returning
\* "Hello World!", dropped as a duplicate with the version still 1.
C21_EndToEndTrace ==
    /\ Heard(<<1000>>)
           => (wpc = "poll" /\ outcome = "hard-silence" /\ state = InitState)
    /\ (Heard(<<1000, 1000000>>) /\ ~trace[2].recognized /\ outcome # "whisper-failed")
           => (wpc = "infer" /\ state = InitState)
    /\ (Heard(<<1000, 1000000>>) /\ Returned_i(2, T_hello_world))
           => \/ wpc = "publish" /\ state = InitState
              \/ /\ wpc \in {"notify", "poll"}
                 /\ state.version = 1
                 /\ state.text = T_hello_world
    /\ (Heard(<<1000, 1000000, 1000000>>) /\ Returned_i(2, T_hello_world))
           => /\ (~trace[3].recognized /\ outcome # "whisper-failed")
                     => (wpc = "infer" /\ state.version = 1)
              /\ Returned_i(3, T_Hello_World)
                     => /\ wpc = "poll"
                        /\ outcome = "duplicate-text"
                        /\ state.version = 1
                        /\ state.text = T_hello_world

\* the three cycles of the scenario have run
C21_Witness ==
    /\ Heard(<<1000, 1000000, 1000000>>)
    /\ Returned_i(2, T_hello_world)
    /\ Returned_i(3, T_Hello_World)
    /\ state.version = 1
    /\ outcome = "duplicate-text"

\* ------------------------------------------------------------------------
\* The warmup of the voice gate
\* ------------------------------------------------------------------------

\* C22: with the VAD on, each of the first 2 chunks obtained after start is
\* admitted only if its energy is at least 2.2 times the gate of its cycle.
C22_FirstTwoNeedObviousVoice ==
    (par.use_vad /\ cycles \in 1..2 /\ Admitted(chunk.verdict))
        => 10 * chunk.chunk_energy >= 22 * chunk.energy_gate

\* C23: the warmup rule rejects a chunk only among the first 2 chunks
\* obtained after start, whatever rule decided about the chunks before it:
\* from the third chunk on no chunk is rejected by the warmup rule.  The
\* warmup counter starts at 2, never increases and stays within 0..2.
C23_WarmupOnlyFirstTwo ==
    [][/\ (cycles' # cycles /\ cycles' >= 3) => chunk'.verdict # "warmup"
       /\ gate'.vad_warmup_chunks <= gate.vad_warmup_chunks
       /\ gate'.vad_warmup_chunks \in 0..2]_vars

\* ------------------------------------------------------------------------
\* The stall bypass
\* ------------------------------------------------------------------------

\* C24: with the VAD on, a chunk the base decision rejects (energy < gate) is
\* admitted, by force, exactly when the count of rejections in a row, this
\* chunk included, is at least 6 and its energy is at least
\* 0.00002 + 0.00008 * vad_unit; otherwise it is rejected.  Every admitted
\* chunk, forced or not, leaves the counter at 0, and a rejected chunk never
\* resets it.
C24_StallBypass ==
    [][(par.use_vad /\ cycles' # cycles)
       => /\ chunk'.chunk_energy < chunk'.energy_gate
                => (Admitted(chunk'.verdict)
                      <=> /\ gate.vad_stall_chunks + 1 >= 6
                          /\ chunk'.chunk_energy
                                >= 2000 + 800 * MaxOf(0, MinOf(par.vad_thold, 10)))
          /\ Admitted(chunk'.verdict) => gate'.vad_stall_chunks = 0
          /\ ~Admitted(chunk'.verdict)
                => gate'.vad_stall_chunks \in {gate.vad_stall_chunks,
                                               gate.vad_stall_chunks + 1}]_vars

\* six and more rejections in a row, and a chunk above the near-silence level
\* but below the bypass gate is rejected again
C24_Witness ==
    /\ par.use_vad
    /\ chunk.verdict = "vad-skip"
    /\ gate.vad_stall_chunks >= 6
    /\ chunk.chunk_energy >= 2000
    /\ chunk.chunk_energy < StallBypassGate(par.vad_thold)

\* ------------------------------------------------------------------------
\* Obvious voice
\* ------------------------------------------------------------------------

\* C25: a chunk whose energy is at least 2.2 times the gate of its cycle is
\* admitted in every state of the warmup counter and of the stall counter;
\* in particular a chunk of at least 100 times the base gate is admitted in
\* the very first cycle.
C25_ObviousVoiceAdmitted ==
    /\ (cycles >= 1 /\ 10 * chunk.chunk_energy >= 22 * chunk.energy_gate)
           => Admitted(chunk.verdict)
    /\ (cycles = 1 /\ chunk.chunk_energy
                         >= 100 * (8000 + 2000 * MaxOf(0, MinOf(par.vad_thold, 10))))
           => Admitted(chunk.verdict)

\* the first chunk, more than 100 times the base gate, is admitted with the
\* VAD on
C25_Witness ==
    /\ par.use_vad
    /\ cycles = 1
    /\ chunk.chunk_energy >= 100 * chunk.energy_gate
    /\ chunk.verdict = "voice"
    /\ gate.vad_warmup_chunks = 0

\* ------------------------------------------------------------------------
\* The noise floor
\* ------------------------------------------------------------------------

\* C26: every cycle that obtains a chunk, admitted or rejected by whatever
\* rule, updates the noise floor once: the first chunk sets it to its energy
\* and makes it ready; energy <= floor gives 0.85 * floor + 0.15 * energy;
\* otherwise 0.96 * floor + 0.04 * min(energy, 1.3 * floor).  No other step
\* changes it.  The gate of the cycle is computed from the floor as it was
\* before this update, so the gate of the first cycle is the base gate.
C26_FloorUpdatedEveryCycle ==
    [][LET e == chunk'.chunk_energy
           f == gate.noise_floor
           u == MaxOf(0, MinOf(par.vad_thold, 10))
           base == 8000 + 2000 * u
       IN IF cycles' # cycles
          THEN /\ gate'.noise_floor_ready
               /\ gate'.noise_floor =
                     IF ~gate.noise_floor_ready THEN e
                     ELSE IF e <= f THEN (85 * f + 15 * e) \div 100
                     ELSE (96 * f + 4 * MinOf(e, (13 * f) \div 10)) \div 100
               /\ chunk'.energy_gate =
                     IF gate.noise_floor_ready
                     THEN MaxOf(base, (f * (160 + 12 * u)) \div 100)
                     ELSE base
               /\ cycles = 0 => chunk'.energy_gate = base
          ELSE /\ gate'.noise_floor = gate.noise_floor
               /\ gate'.noise_floor_ready = gate.noise_floor_ready]_vars

\* a near-silent chunk after a loud one: the cycle is rejected, its gate is
\* the adaptive gate of the floor the loud chunk left, and the floor has
\* come down
C26_Witness ==
    /\ chunk.verdict = "hard-silence"
    /\ cycles = 2
    /\ chunk.energy_gate > BaseGate(par.vad_thold)
    /\ gate.noise_floor > chunk.chunk_energy
    /\ EnergyGate(par.vad_thold, gate.noise_floor, TRUE) < chunk.energy_gate

\* C27: in every cycle where the floor is ready and energy > floor
\* the updated floor is strictly greater than the old floor and at most
\* 1.012 times the old floor; in every cycle where energy <= floor the
\* updated floor is not greater than the old floor and not less than the
\* energy; the floor is never negative.
C27_FloorRisesStrictly ==
    [][cycles' # cycles
       => /\ (gate.noise_floor_ready /\ chunk'.chunk_energy > gate.noise_floor)
                => /\ gate'.noise_floor > gate.noise_floor
                   /\ 1000 * gate'.noise_floor <= 1012 * gate.noise_floor
          /\ (gate.noise_floor_ready /\ chunk'.chunk_energy <= gate.noise_floor)
                => /\ gate'.noise_floor <= gate.noise_floor
                   /\ gate'.noise_floor >= chunk'.chunk_energy
          /\ gate'.noise_floor >= 0]_vars

\* ------------------------------------------------------------------------
\* Window assembly
\* ------------------------------------------------------------------------

\* C28 as stated: for chunks of any lengths between the step and twice the
\* step and any --keep, --length with keep <= step <= length, every window
\* produced has the length take + len(newChunk) with
\* 0 <= take <= len(previousWindow) and
\* take <= keepSamples + lengthSamples - len(newChunk).
C28_TakeWithinBudget ==
    [][(cycles' # cycles /\ Admitted(chunk'.verdict))
       => /\ Len(pcm'.pcmf32) = pcm'.n_samples_take + pcm'.n_samples_new
          /\ 0 <= pcm'.n_samples_take
          /\ pcm'.n_samples_take <= Len(pcm.pcmf32_old)
          /\ pcm'.n_samples_take
                <= pcm.n_samples_keep + pcm.n_samples_len - pcm'.n_samples_new]_vars

\* C28 amended: every window produced has the length take + len(newChunk)
\* with 0 <= take <= len(previousWindow) and
\* take <= max(0, keepSamples + lengthSamples - len(newChunk)): a chunk
\* longer than keepSamples + lengthSamples is a window of its own, take = 0.
C28_TakeWithinClampedBudget ==
    [][(cycles' # cycles /\ Admitted(chunk'.verdict))
       => /\ Len(pcm'.pcmf32) = pcm'.n_samples_take + pcm'.n_samples_new
          /\ 0 <= pcm'.n_samples_take
          /\ pcm'.n_samples_take <= Len(pcm.pcmf32_old)
          /\ pcm'.n_samples_take
                <= MaxOf(0, pcm.n_samples_keep + pcm.n_samples_len
                              - pcm'.n_samples_new)]_vars

\* the tail of a window is cut by keep + length - new: it is shorter than
\* the window before it, which reached further back than this cycle's
\* predecessor
C28_Witness ==
    /\ Admitted(chunk.verdict)
    /\ pcm.n_samples_take > 0
    /\ pcm.n_samples_take = pcm.n_samples_keep + pcm.n_samples_len - pcm.n_samples_new
    /\ pcm.pcmf32[1] < cycles - 1

\* C29: the window produced by a cycle never has more than
\* keepSamples + len(newChunk) samples, newChunk being the chunk of that
\* cycle.
C29_WindowSelfBounded ==
    [][(cycles' # cycles /\ Admitted(chunk'.verdict))
       => Len(pcm'.pcmf32) <= pcm.n_samples_keep + pcm'.n_samples_new]_vars

\* C30: every cycle that obtains a chunk replaces the previous window by the
\* window of that cycle, so the tail carried into a window comes from the
\* window of the cycle just before.
C30_PreviousWindowReplacedEveryCycle ==
    [][cycles' # cycles
       => /\ pcm'.pcmf32_old # <<>>
          /\ Last(pcm'.pcmf32_old) = cycles'
          /\ (Admitted(chunk'.verdict) /\ pcm'.n_samples_take > 0)
                => pcm'.pcmf32[pcm'.n_samples_take] = cycles]_vars

\* C31: the last-published reference (text and normalized text) changes
\* only in a cycle that publishes, in the cycle of the version increment:
\* it changes only in the step after the publish block, which is entered
\* only by a version increment and within the same cycle; the version
\* changes only in the publish block; and whenever a production cycle
\* starts after a publish the reference is the text field of the published
\* record and its normalization.
C31_ReferenceFollowsPublish ==
    [][/\ emitted_ref' # emitted_ref => wpc = "notify" /\ wpc' = "poll"
       /\ state'.version # state.version
             => wpc = "publish" /\ wpc' = "notify"
                /\ state'.version = state.version + 1
       /\ (wpc' = "notify" /\ wpc # "notify") => state'.version = state.version + 1
       /\ wpc = "notify" => cycles' = cycles /\ state'.text = state.text
       /\ (wpc' = "poll" /\ state'.version >= 1)
             => /\ emitted_ref'.has_emitted_text
                /\ emitted_ref'.prev_emitted_text = state'.text
                /\ emitted_ref'.prev_emitted_norm = normalize_for_dedup(state'.text)
       /\ state'.version = 0 => ~emitted_ref'.has_emitted_text]_vars

\* a cycle after a publish recognized a text and dropped it as a duplicate:
\* the reference is still the published text
C31_Witness ==
    /\ cycles = 2
    /\ wpc = "poll"
    /\ outcome = "duplicate-text"
    /\ state.version = 1
    /\ emitted_ref.prev_emitted_text = state.text
    /\ state.text # <<>>

\* the whitespace-separated tokens of text, as they are written
RECURSIVE Words(_, _, _)
Words(text, current, out) ==
    IF text = <<>> THEN (IF current = <<>> THEN out ELSE Append(out, current))
    ELSE IF IsSpace(Head(text))
         THEN Words(Tail(text), <<>>, IF current = <<>> THEN out ELSE Append(out, current))
         ELSE Words(Tail(text), Append(current, Head(text)), out)

\* the recognizer returned a text for the chunk of this cycle and the loop
\* has dropped it
LastDropped ==
    /\ wpc = "poll"
    /\ outcome \in {"duplicate-text", "dominant-token-ratio",
                    "consecutive-token-repeat", "suffix-single-token-repeat"}

\* C32: a candidate of 10 space-separated repetitions of one same token is
\* dropped, whatever the token (letters, digits or punctuation); and a
\* candidate with at least 8 tokens whose most frequent token has a share
\* of at least 0.75, or with a run of at least 5 identical consecutive
\* tokens, is never published.
C32_RepetitionsDropped ==
    (trace # <<>> /\ Last(trace).recognized)
        => LET raw == Last(trace).raw
               w == Words(raw, <<>>, <<>>)
           IN (\/ \E t \in RepeatTokens : raw = Repeated(t, 10)
               \/ Len(w) >= 8 /\ 4 * MaxTokenCount(w) >= 3 * Len(w)
               \/ w # <<>> /\ MaxRun(w) >= 5)
                 => LastDropped

\* C33: after at least one publish, a candidate that is the last published
\* text followed by four or more whitespace-separated copies of one same
\* token is dropped and never published, whatever the last published text
\* and the token: no such candidate gets as far as the publish block.
C33_SuffixRepeatDropped ==
    (trace # <<>> /\ Last(trace).recognized /\ state.version >= 1)
        => ((\E t \in RepeatTokens, n \in {4, 5} :
                Last(trace).raw = state.text \o <<" ">> \o Repeated(t, n))
              => LastDropped)

\* C34: two different (text, target_lang) pairs never produce the same
\* cache key, so a cache hit returns the result that was stored for exactly
\* that text and that target language: an attempt that is answered from
\* the cache has the text and the target_lang of the attempt before it,
\* the one the entry was stored or last returned for, and returns its
\* result.
C34_CacheHitSamePair ==
    [][(wpc = "translate" /\ xlat' # xlat /\ ~xlat'.called)
         => /\ xlat.made
            /\ CacheKey(xlat.text, xlat.target_lang) = cache.cache_key
            /\ xlat'.text = xlat.text
            /\ xlat'.target_lang = xlat.target_lang
            /\ xlat'.result = cache.cache_result]_vars

\* C35: json_get_string_field() fails whenever its input is not a
\* well-formed JSON object, also when the value of a key it does not need
\* is not a JSON value (a bare word, a token with a quote character inside).
C35_FailsOnIllFormedObject ==
    (js.text \in MalformedTexts \cup IllFormedTexts /\ js.get.done) => ~js.get.ok

\* C36: each data event a subscriber emits is a consistent snapshot.  The
\* three fields change only in the step that increments the version, which
\* writes the three values of the cycle; the event a subscriber builds is
\* the three fields of the record as it is at that moment, together with
\* the version of that record; and the event written is the one built, the
\* local version becoming the version read with it, whatever the writer
\* has published in between.
C36_EventIsOnePublish ==
    [][/\ IF state'.version = state.version
          THEN PubFields(state') = PubFields(state)
          ELSE /\ state'.version = state.version + 1
               /\ PubFields(state') = <<cyc.text, cyc.translated, cyc.lang>>
       /\ \A s \in Subs :
             /\ (sub[s].pc # "write" /\ sub'[s].pc = "write"
                    /\ sub'[s].event # NoEvent)
                  => /\ state' = state
                     /\ sub'[s].event = <<PubFields(state)>>
                     /\ sub'[s].next_version = state.version
             /\ (sub[s].pc = "write" /\ emitted'[s] # emitted[s])
                  => /\ sub[s].event # NoEvent
                     /\ emitted'[s] = Append(emitted[s], sub[s].next_version)
                     /\ sub'[s].client_version = sub[s].next_version]_vars

\* a subscriber holds the event of the first publish, not yet written,
\* while the record is already that of the second publish
C36_Witness ==
    \E s \in Subs :
        /\ sub[s].pc = "write"
        /\ sub[s].event # NoEvent
        /\ sub[s].next_version = 1
        /\ state.version = 2
        /\ sub[s].event # <<PubFields(state)>>

\* C37: no lost wake-up.  If the published version stops changing at a
\* value of at least 1 while running stays true, every subscriber whose
\* connection stays open (so that none of its writes fails) eventually
\* emits the event of that version and has it as its local version, even
\* when no wait ever ends by its timeout.
C37_NoLostWakeup ==
    \A s \in Subs : \A v \in 1..(MaxCycles + 1) :
        <>[](state.version = v /\ state.running /\ Connected(s))
            => <>(/\ sub[s].client_version = v
                  /\ emitted[s] # <<>>
                  /\ Last(emitted[s]) = v)

\* a connection that blocked before the publish has been notified and has
\* not yet looked at the new version
C37_Witness ==
    \E s \in Subs :
        /\ sub[s].pc = "blocked"
        /\ sub[s].notified
        /\ sub[s].client_version = 0
        /\ state.version = 1
        /\ state.running

\* C38: with --no-vad the warmup and stall rules never apply: a chunk is
\* admitted to recognition if and only if its energy is at least 0.00002,
\* no chunk is rejected by the warmup or as quiet or admitted by the stall
\* bypass, and the warmup counter keeps its initial value.
C38_NoVadOnlySilenceGate ==
    [][(~par.use_vad /\ cycles' # cycles)
         => /\ Admitted(chunk'.verdict) <=> chunk'.chunk_energy >= 2000
            /\ wpc' = IF chunk'.chunk_energy >= 2000 THEN "infer" ELSE "poll"
            /\ chunk'.verdict \in {"voice", "hard-silence"}
            /\ gate'.vad_warmup_chunks = gate.vad_warmup_chunks
            /\ gate'.vad_warmup_chunks = 2
            /\ gate'.vad_stall_chunks = 0]_vars

\* without the VAD the very first chunk, of exactly 0.00002, is admitted,
\* and the next one, just below, is not
C38_Witness ==
    /\ ~par.use_vad
    /\ cycles = 2
    /\ chunk.chunk_energy = 1999
    /\ ~Admitted(chunk.verdict)
    /\ gate.noise_floor_ready
    /\ gate.noise_floor < 2000
    /\ gate.vad_warmup_chunks = 2

====
